---- MODULE Spec2Model ----
(***************************************************************************)
(* Model of the trajectory spatial-hash plugin (SpatialHashedTrajectory):  *)
(* the per-timestep hash table (FSpatialHashTable), its builder            *)
(* (FSpatialHashTableBuilder), the incremental shard builder, the table    *)
(* manager (USpatialHashTableManager) with its cache and query modes, and  *)
(* the async query tasks.                                                  *)
(*                                                                         *)
(* Lengths (world coordinates, radii, cell sizes) are integers counted in  *)
(* units of 1/3000, so that the tolerance CellSizeEpsilon = 0.001 is 3     *)
(* units, 1.0 is Unit = 3000 units, and "%.3f" rounds without ties.  A     *)
(* missing (NaN) position is the value NaN.                                *)
(***************************************************************************)
EXTENDS Integers, Sequences, FiniteSets, TLC

\* ------------------------------------------------------------------ bounds
MaxCoord == 2       \* world coordinates x of samples range over 0..MaxCoord
MaxSamples == 3     \* longest sample list given to the per-timestep builder
MaxShards == 4      \* most shard files of a dataset directory
MaxFaults == 2      \* most failing I/O operations during one build
MaxRadius == 3      \* query radii range over 0..MaxRadius half units
MaxOps == 3         \* owner-thread calls made on one manager
MaxObjects == 3     \* table objects alive at once
MaxQueries == 1     \* queries outstanding at once
MaxTasks == 2       \* async query tasks created

\* ------------------------------------------------------- program constants
Magic == 1414744148             \* 0x54534854, "TSHT"
FormatVersion == 1
CoordMax21 == 2097151           \* 0x1fffff
HeaderBytes == 64
EntryBytes == 16
IdBytes == 4
BatchSize == 3                  \* shards per batch of Pass 2
Int32Max == 2147483647          \* INT32_MAX
CellSizeEpsilon == 3            \* 0.001f
Unit == 1000 * CellSizeEpsilon  \* 1.0f
FltMax == 1000 * Unit           \* stands for FLT_MAX: beyond every coordinate

NaN == <<>>                                     \* a position with a NaN component
NoTable == [none |-> TRUE]                      \* no table object
NoFile == [exists |-> FALSE, words |-> <<>>]    \* no such file on disk
NoPath == [none |-> TRUE]                       \* FString(): the empty path

\* --------------------------------------------------------------- variables
VARIABLES
    tpc,        \* table life cycle: "init", "built", "saved", "loaded"
    tSamples,   \* the sample list handed to BuildHashTableForTimeStep
    tConfig,    \* FBuildConfig: CellSize, BBoxMin, BBoxMax, and the time step
    tTable,     \* the FSpatialHashTable built in memory
    tFile,      \* the bytes of the saved file: header, entries, ids
    tLoaded,    \* the FSpatialHashTable filled in by LoadFromFile
    tQuery      \* the last QueryAtPosition: its point and what it returned

VARIABLES
    bpc,        \* incremental build: "idle", "pass2", "done", "failed", "crashed"
    bDir,       \* the dataset directory with its shard files
    bCellSize,  \* BaseConfig.CellSize
    bFiles,     \* ShardFiles, sorted
    bStarts,    \* ShardStartTimeSteps
    bBBox,      \* <<BBoxMin, BBoxMax>> after the margin
    bBatchStart,\* BatchStart of the next batch
    bDisk,      \* the hash-table files written below the output directory
    bFaults     \* I/O operations that have failed so far

VARIABLES
    qpc,        \* query run: "init", "loaded", "done"
    qDir,       \* the dataset directory
    qCellSize,  \* the cell size of the tables
    qDisk,      \* the hash-table files of the dataset
    qCache,     \* LoadedHashTables
    qQuery,     \* the query made: mode, position, radius, time step
    qResult     \* the trajectory ids of the results, in result order

VARIABLES
    mOwner,     \* owner thread: idle, or inside the builder of a LoadHashTables call
    mDir,       \* the dataset directory
    mDisk,      \* the hash-table files of the dataset
    mCache,     \* LoadedHashTables
    mCreating,  \* bIsCreatingHashTables
    mTask,      \* the background task of CreateHashTablesAsync
    mQueries,   \* the table pointers held by the outstanding queries
    mLive,      \* the table objects that have not been destroyed
    mLast,      \* the last load call that returned: its arguments and outcome
    mOps        \* owner-thread calls made so far

VARIABLES
    aTasks,     \* the async query tasks (Blueprint async actions)
    aPending    \* the tasks whose completion delegate the manager still holds

VARIABLES
    epc,        \* key calculation: "in", "out"
    eCell,      \* the cell coordinates handed to CalculateZOrderKey
    eKey        \* the key returned: the set of the bits that are 1

VARIABLES
    gpc,        \* SpatialHashGrid: "new", "built", "failed"
    gCellSize,  \* cell_size_
    gPoints,    \* points_
    gGrid,      \* grid_: cell -> the indices of its points
    gQuery      \* the last query: its arguments and what it returned

VARIABLES
    wpc,        \* sample extraction of a batch: "extract", "built"
    wShards,    \* the batch: BatchShardData with the start time step read for each shard
    wNext,      \* per worker: the samples of its shard it has gone through
    wBuckets,   \* BatchTimeStepSamples
    wTables     \* the tables built from the buckets

VARIABLES
    nPositions,     \* QueryPositions of the actor
    nCachedPoints,  \* CachedQueryPoints
    nCachedResults, \* CachedResults
    nCalls,         \* the FireAsyncQueriesWithCallback calls made, each with its PendingCount
    nQueries,       \* the per-position queries whose callback is outstanding
    nAlive          \* the actor has not been destroyed

tvars == <<tpc, tSamples, tConfig, tTable, tFile, tLoaded, tQuery>>
bvars == <<bpc, bDir, bCellSize, bFiles, bStarts, bBBox, bBatchStart, bDisk, bFaults>>
qvars == <<qpc, qDir, qCellSize, qDisk, qCache, qQuery, qResult>>
mvars == <<mOwner, mDir, mDisk, mCache, mCreating, mTask, mQueries, mLive, mLast, mOps>>
avars == <<aTasks, aPending>>
evars == <<epc, eCell, eKey>>
gvars == <<gpc, gCellSize, gPoints, gGrid, gQuery>>
wvars == <<wpc, wShards, wNext, wBuckets, wTables>>
nvars == <<nPositions, nCachedPoints, nCachedResults, nCalls, nQueries, nAlive>>
xvars == <<evars, gvars, wvars, nvars>>
vars == <<tvars, bvars, qvars, mvars, avars, xvars>>

\* ------------------------------------------------------------ sequences
Range(s) == {s[i] : i \in 1..Len(s)}

RECURSIVE SeqSum(_)
SeqSum(s) == IF s = <<>> THEN 0 ELSE Head(s) + SeqSum(Tail(s))

Min2(a, b) == IF a < b THEN a ELSE b
Max2(a, b) == IF a > b THEN a ELSE b

\* TArray<uint64>::Sort(): ascending order of the keys (insertion into a
\* sorted prefix).
RECURSIVE InsertSorted(_, _)
InsertSorted(k, s) ==
    IF s = <<>> THEN <<k>>
    ELSE IF k <= Head(s) THEN <<k>> \o s
    ELSE <<Head(s)>> \o InsertSorted(k, Tail(s))

RECURSIVE SortKeys(_)
SortKeys(s) == IF s = <<>> THEN <<>> ELSE InsertSorted(Head(s), SortKeys(Tail(s)))

\* TMap::GetKeys of a map filled by FindOrAdd in sample order: the distinct
\* keys in order of first insertion.
RECURSIVE DistinctInOrder(_)
DistinctInOrder(s) ==
    IF s = <<>> THEN <<>>
    ELSE LET front == DistinctInOrder(SubSeq(s, 1, Len(s) - 1))
             last == s[Len(s)]
         IN IF last \in Range(front) THEN front ELSE Append(front, last)

\* --------------------------------------------------------- Morton codec
\* SplitBy3: the low 21 bits of Value, bit i moved to bit 3i.
RECURSIVE SpreadBits(_, _)
SpreadBits(x, n) ==
    IF n = 0 \/ x = 0 THEN 0 ELSE (x % 2) + 8 * SpreadBits(x \div 2, n - 1)

SplitBy3(Value) == SpreadBits(Value % (CoordMax21 + 1), 21)

Clamp(v, lo, hi) == IF v < lo THEN lo ELSE IF v > hi THEN hi ELSE v

CalculateZOrderKey(CellX, CellY, CellZ) ==
    LET X == Clamp(CellX, 0, CoordMax21)
        Y == Clamp(CellY, 0, CoordMax21)
        Z == Clamp(CellZ, 0, CoordMax21)
    IN SplitBy3(X) + 2 * SplitBy3(Y) + 4 * SplitBy3(Z)

\* floor((WorldPos - BBoxMin) / CellSize) per axis; (0,0,0) when the cell
\* size is not positive.
WorldToCellCoordinates(WorldPos, BBoxMin, CellSize) ==
    IF CellSize > 0
    THEN <<(WorldPos[1] - BBoxMin[1]) \div CellSize,
           (WorldPos[2] - BBoxMin[2]) \div CellSize,
           (WorldPos[3] - BBoxMin[3]) \div CellSize>>
    ELSE <<0, 0, 0>>

CellKey(WorldPos, BBoxMin, CellSize) ==
    LET c == WorldToCellCoordinates(WorldPos, BBoxMin, CellSize)
    IN CalculateZOrderKey(c[1], c[2], c[3])

\* ------------------------------------------------------ FSpatialHashTable
\* FSpatialHashHeader() : the default header of a fresh table object.
DefaultHeader ==
    [Magic |-> Magic, Version |-> FormatVersion, TimeStep |-> 0, CellSize |-> Unit,
     BBoxMin |-> <<0, 0, 0>>, BBoxMax |-> <<0, 0, 0>>,
     NumEntries |-> 0, NumTrajectoryIds |-> 0]

\* FSpatialHashTable() = default
EmptyTable ==
    [Header |-> DefaultHeader, Entries |-> <<>>, TrajectoryIds |-> <<>>,
     SourceFilePath |-> NoPath]

Validate(t) ==
    /\ t.Header.Magic = Magic
    /\ t.Header.Version = FormatVersion
    /\ t.Header.CellSize > 0
    /\ t.Header.NumEntries = Len(t.Entries)
    /\ (Len(t.TrajectoryIds) > 0 => t.Header.NumTrajectoryIds = Len(t.TrajectoryIds))
    /\ \A i \in 2..Len(t.Entries) : t.Entries[i].ZOrderKey > t.Entries[i - 1].ZOrderKey
    /\ LET n == IF Len(t.TrajectoryIds) > 0 THEN Len(t.TrajectoryIds)
                ELSE t.Header.NumTrajectoryIds
       IN \A i \in 1..Len(t.Entries) :
            /\ t.Entries[i].StartIndex < n
            /\ t.Entries[i].StartIndex + t.Entries[i].TrajectoryCount <= n

\* ------------------------------------------------- per-timestep builder
\* The keys of the samples, in sample order.
SampleKeys(Samples, Config) ==
    [i \in 1..Len(Samples) |-> CellKey(Samples[i].Position, Config.BBoxMin, Config.CellSize)]

\* CellMap[Key]: the trajectory ids appended to the cell, in sample order.
RECURSIVE CellIds(_, _, _)
CellIds(Samples, keys, Key) ==
    IF Samples = <<>> THEN <<>>
    ELSE (IF Head(keys) = Key THEN <<Head(Samples).TrajectoryId>> ELSE <<>>)
         \o CellIds(Tail(Samples), Tail(keys), Key)

\* STEP 5: walk the sorted keys, one entry per key, CurrentIndex advanced by
\* the size of each cell.  Returns <<Entries, TrajectoryIds>>.
RECURSIVE EmitEntries(_, _, _, _)
EmitEntries(Keys, Samples, keys, CurrentIndex) ==
    IF Keys = <<>> THEN <<<<>>, <<>>>>
    ELSE LET ids == CellIds(Samples, keys, Head(Keys))
             rest == EmitEntries(Tail(Keys), Samples, keys, CurrentIndex + Len(ids))
         IN <<<<[ZOrderKey |-> Head(Keys), StartIndex |-> CurrentIndex,
                 TrajectoryCount |-> Len(ids)]>> \o rest[1],
              ids \o rest[2]>>

\* The builder with the sort of the keys left out (keys in insertion order).
BuildHashTableForTimeStep_Unsorted(TimeStep, Samples, Config) ==
    LET hdr == [DefaultHeader EXCEPT !.TimeStep = TimeStep,
                                     !.CellSize = Config.CellSize,
                                     !.BBoxMin = Config.BBoxMin,
                                     !.BBoxMax = Config.BBoxMax]
        keys == SampleKeys(Samples, Config)
        out == EmitEntries(DistinctInOrder(keys), Samples, keys, 0)
    IN [Header |-> [hdr EXCEPT !.NumEntries = Len(out[1]),
                               !.NumTrajectoryIds = Len(out[2])],
        Entries |-> out[1],
        TrajectoryIds |-> out[2],
        SourceFilePath |-> NoPath]

BuildHashTableForTimeStep(TimeStep, Samples, Config) ==
    LET hdr == [DefaultHeader EXCEPT !.TimeStep = TimeStep,
                                     !.CellSize = Config.CellSize,
                                     !.BBoxMin = Config.BBoxMin,
                                     !.BBoxMax = Config.BBoxMax]
    IN IF Samples = <<>>
       THEN [EmptyTable EXCEPT !.Header = hdr]
       ELSE LET keys == SampleKeys(Samples, Config)
                Keys == SortKeys(DistinctInOrder(keys))
                out == EmitEntries(Keys, Samples, keys, 0)
            IN [Header |-> [hdr EXCEPT !.NumEntries = Len(out[1]),
                                       !.NumTrajectoryIds = Len(out[2])],
                Entries |-> out[1],
                TrajectoryIds |-> out[2],
                SourceFilePath |-> NoPath]

\* The file as a sequence of 32-bit words: 16 header words, 4 words per
\* entry (the 64-bit key as low and high word; keys of the model fit the
\* low word), 1 word per trajectory id.
HeaderWords(h) ==
    <<h.Magic, h.Version, h.TimeStep, h.CellSize,
      h.BBoxMin[1], h.BBoxMin[2], h.BBoxMin[3],
      h.BBoxMax[1], h.BBoxMax[2], h.BBoxMax[3],
      h.NumEntries, h.NumTrajectoryIds, 0, 0, 0, 0>>

RECURSIVE EntryWords(_)
EntryWords(es) ==
    IF es = <<>> THEN <<>>
    ELSE <<Head(es).ZOrderKey, 0, Head(es).StartIndex, Head(es).TrajectoryCount>>
         \o EntryWords(Tail(es))

\* SaveToFile: validation first, then header, entries and ids in this order.
\* ioOk: the file could be opened and every write was complete.
SaveToFile(t, ioOk) ==
    IF Validate(t) /\ ioOk
    THEN [ok |-> TRUE,
          file |-> [exists |-> TRUE,
                    words |-> HeaderWords(t.Header) \o EntryWords(t.Entries) \o t.TrajectoryIds]]
    ELSE [ok |-> FALSE, file |-> NoFile]

\* Read n bytes at byte offset off: the words they cover, <<>> when short.
ReadWords(file, off, n) ==
    IF ~file.exists \/ off + n > IdBytes * Len(file.words) THEN <<>>
    ELSE SubSeq(file.words, off \div IdBytes + 1, (off + n) \div IdBytes)

ParseHeader(w) ==
    [Magic |-> w[1], Version |-> w[2], TimeStep |-> w[3], CellSize |-> w[4],
     BBoxMin |-> <<w[5], w[6], w[7]>>, BBoxMax |-> <<w[8], w[9], w[10]>>,
     NumEntries |-> w[11], NumTrajectoryIds |-> w[12]]

ParseEntries(w) ==
    [i \in 1..(Len(w) \div 4) |->
        [ZOrderKey |-> w[4 * i - 3], StartIndex |-> w[4 * i - 1],
         TrajectoryCount |-> w[4 * i]]]

\* LoadFromFile into the table object t: header and entries are read, the
\* trajectory ids are left for on-demand reads; Validate() at the end.
LoadFromFile(t, Filename, file) ==
    IF ~file.exists THEN [ok |-> FALSE, table |-> t]
    ELSE LET hw == ReadWords(file, 0, HeaderBytes)
             t1 == [t EXCEPT !.SourceFilePath = Filename]
         IN IF hw = <<>> THEN [ok |-> FALSE, table |-> t1]
            ELSE LET h == ParseHeader(hw)
                     t2 == [t1 EXCEPT !.Header = h]
                 IN IF h.Magic # Magic \/ h.Version # FormatVersion
                    THEN [ok |-> FALSE, table |-> t2]
                    ELSE IF h.NumEntries > 0
                    THEN LET ew == ReadWords(file, HeaderBytes, h.NumEntries * EntryBytes)
                             t3 == [t2 EXCEPT !.Entries =
                                        IF ew = <<>> THEN [i \in 1..h.NumEntries |->
                                               [ZOrderKey |-> 0, StartIndex |-> 0, TrajectoryCount |-> 0]]
                                        ELSE ParseEntries(ew)]
                         IN [ok |-> ew # <<>> /\ Validate(t3), table |-> t3]
                    ELSE [ok |-> Validate(t2), table |-> t2]

\* ------------------------------------------------ dataset directory, shards
\* A dataset directory is [exists, shards]; shards maps the name of each file
\* "shard-<name>.bin" (name: the sequence of decimal digits between "shard-"
\* and ".bin") to the shard's data [IntervalSize, Entries], an entry being
\* [TrajectoryId, ValidSampleCount, Positions].
NoDirectory == [exists |-> FALSE, shards |-> <<>>]

\* FCString::Atoi of a digit string.
RECURSIVE Atoi(_)
Atoi(d) == IF d = <<>> THEN 0 ELSE 10 * Atoi(SubSeq(d, 1, Len(d) - 1)) + d[Len(d)]

ParseTimestepFromFilename(name) == Atoi(name)

\* Order of the file names as strings: the digits left to right, then '.',
\* which sorts before every digit.
RECURSIVE SeqLess(_, _)
SeqLess(a, b) ==
    IF a = <<>> THEN b # <<>>
    ELSE IF b = <<>> THEN FALSE
    ELSE IF Head(a) # Head(b) THEN Head(a) < Head(b)
    ELSE SeqLess(Tail(a), Tail(b))

NameLess(a, b) == SeqLess(Append(a, -1), Append(b, -1))

\* TArray<FString>::Sort()
RECURSIVE SortNames(_)
SortNames(S) ==
    IF S = {} THEN <<>>
    ELSE LET m == CHOOSE x \in S : \A y \in S \ {x} : NameLess(x, y)
         IN <<m>> \o SortNames(S \ {m})

GetShardFiles(dir) ==
    IF ~dir.exists \/ DOMAIN dir.shards = {}
    THEN [ok |-> FALSE, files |-> <<>>]
    ELSE [ok |-> TRUE, files |-> SortNames(DOMAIN dir.shards)]

\* UTrajectoryDataLoader::LoadShardFile; ok: this read of the file succeeds.
LoadShardFile(dir, name, ok) ==
    IF ok /\ dir.exists /\ name \in DOMAIN dir.shards
    THEN [bSuccess |-> TRUE, IntervalSize |-> dir.shards[name].IntervalSize,
          Entries |-> dir.shards[name].Entries]
    ELSE [bSuccess |-> FALSE, IntervalSize |-> 0, Entries |-> <<>>]

IsValidPos(p) == p # NaN

\* ------------------------------------------------- incremental builder
SetMin(S, init) == IF S = {} THEN init ELSE Min2(init, CHOOSE m \in S : \A x \in S : m <= x)
SetMax(S, init) == IF S = {} THEN init ELSE Max2(init, CHOOSE m \in S : \A x \in S : m >= x)

ShardPositions(sd) ==
    {sd.Entries[e].Positions[i] :
        e \in 1..Len(sd.Entries), i \in 1..sd.IntervalSize} \ {NaN}

\* PASS 1 from shard index i (1-based) on: a shard that fails to load is
\* skipped and adds nothing to ShardStartTimeSteps.  ok1[i]: the load of
\* ShardFiles[i] succeeds.
RECURSIVE Pass1From(_, _, _, _, _)
Pass1From(dir, ShardFiles, ok1, i, acc) ==
    IF i > Len(ShardFiles) THEN acc
    ELSE LET sd == LoadShardFile(dir, ShardFiles[i], ok1[i])
             start == ParseTimestepFromFilename(ShardFiles[i])
             ps == ShardPositions(sd)
         IN IF ~sd.bSuccess THEN Pass1From(dir, ShardFiles, ok1, i + 1, acc)
            ELSE Pass1From(dir, ShardFiles, ok1, i + 1,
                    [ShardStartTimeSteps |-> Append(acc.ShardStartTimeSteps, start),
                     BBoxMin |-> <<SetMin({q[1] : q \in ps}, acc.BBoxMin[1]),
                                   SetMin({q[2] : q \in ps}, acc.BBoxMin[2]),
                                   SetMin({q[3] : q \in ps}, acc.BBoxMin[3])>>,
                     BBoxMax |-> <<SetMax({q[1] : q \in ps}, acc.BBoxMax[1]),
                                   SetMax({q[2] : q \in ps}, acc.BBoxMax[2]),
                                   SetMax({q[3] : q \in ps}, acc.BBoxMax[3])>>])

\* PASS 1 and the margin: [ok, ShardStartTimeSteps, BBoxMin, BBoxMax].
Pass1(dir, ShardFiles, ok1, BoundingBoxMargin) ==
    LET acc == Pass1From(dir, ShardFiles, ok1, 1,
                   [ShardStartTimeSteps |-> <<>>,
                    BBoxMin |-> <<FltMax, FltMax, FltMax>>,
                    BBoxMax |-> <<-FltMax, -FltMax, -FltMax>>])
    IN [ok |-> acc.ShardStartTimeSteps # <<>>,
        ShardStartTimeSteps |-> acc.ShardStartTimeSteps,
        BBoxMin |-> [k \in 1..3 |-> acc.BBoxMin[k] - BoundingBoxMargin],
        BBoxMax |-> [k \in 1..3 |-> acc.BBoxMax[k] + BoundingBoxMargin]]

\* "%.3f" of a cell size: the nearest multiple of 0.001, in thousandths.
FormatCellSize(CellSize) == (CellSize + 1) \div CellSizeEpsilon

\* <OutputDirectory>/spatial_hashing/cellsize_<X.XXX>/timestep_XXXXX.bin
GetOutputFilename(CellSize, TimeStep) ==
    [cellsize |-> FormatCellSize(CellSize), timestep |-> TimeStep]

\* The files below a dataset directory: a function from paths to files.
NoFiles == <<>>
FileAt(disk, path) == IF path \in DOMAIN disk THEN disk[path] ELSE NoFile
WriteFile(disk, path, file) ==
    [q \in DOMAIN disk \cup {path} |-> IF q = path THEN file ELSE disk[q]]

\* ShardStartTimeSteps[Index] for a 0-based Index; past the end of the array
\* the read is out of range and yields garbage.
OutOfRange(ShardStartTimeSteps, Index) == Index >= Len(ShardStartTimeSteps)
StartAt(ShardStartTimeSteps, Index, garbage) ==
    IF OutOfRange(ShardStartTimeSteps, Index) THEN garbage
    ELSE ShardStartTimeSteps[Index + 1]

\* PASS 2, loading of the batch [BatchStart, BatchEnd) from shard ShardIdx on
\* (indices 0-based as in the code); ok2[ShardIdx + 1]: this load succeeds.
RECURSIVE LoadBatchFrom(_, _, _, _, _, _, _, _)
LoadBatchFrom(dir, ShardFiles, Starts, ShardIdx, BatchEnd, ok2, garbage, acc) ==
    IF ShardIdx >= BatchEnd THEN acc
    ELSE LET sd == LoadShardFile(dir, ShardFiles[ShardIdx + 1], ok2[ShardIdx + 1])
             ShardStartTimeStep == StartAt(Starts, ShardIdx, garbage)
             ShardEndTimeStep == ShardStartTimeStep + sd.IntervalSize - 1
         IN IF ~sd.bSuccess
            THEN LoadBatchFrom(dir, ShardFiles, Starts, ShardIdx + 1, BatchEnd, ok2, garbage, acc)
            ELSE LoadBatchFrom(dir, ShardFiles, Starts, ShardIdx + 1, BatchEnd, ok2, garbage,
                    [BatchShardData |-> Append(acc.BatchShardData, sd),
                     BatchMinTimeStep |-> Min2(acc.BatchMinTimeStep, ShardStartTimeStep),
                     BatchMaxTimeStep |-> Max2(acc.BatchMaxTimeStep, ShardEndTimeStep),
                     outOfRange |-> acc.outOfRange \/ OutOfRange(Starts, ShardIdx)])

\* The valid samples of one entry as [g, TrajectoryId, Position], g the
\* global time step ShardStartTimeStep + LocalTimeStep.
EntrySamples(Entry, ShardStartTimeStep) ==
    IF Entry.ValidSampleCount = 0 THEN <<>>
    ELSE LET all == [i \in 1..Len(Entry.Positions) |->
                        [g |-> ShardStartTimeStep + (i - 1),
                         TrajectoryId |-> Entry.TrajectoryId,
                         Position |-> Entry.Positions[i]]]
             Valid(x) == IsValidPos(x.Position)
         IN SelectSeq(all, Valid)

RECURSIVE ShardSamples(_, _)
ShardSamples(Entries, ShardStartTimeStep) ==
    IF Entries = <<>> THEN <<>>
    ELSE EntrySamples(Head(Entries), ShardStartTimeStep)
         \o ShardSamples(Tail(Entries), ShardStartTimeStep)

\* The samples of the loaded shards of a batch, shard BatchIdx (0-based)
\* being given the start time step ShardStartTimeSteps[BatchStart + BatchIdx].
RECURSIVE BatchSamples(_, _, _, _, _)
BatchSamples(BatchShardData, Starts, BatchStart, BatchIdx, garbage) ==
    IF BatchIdx >= Len(BatchShardData) THEN <<>>
    ELSE ShardSamples(BatchShardData[BatchIdx + 1].Entries,
                      StartAt(Starts, BatchStart + BatchIdx, garbage))
         \o BatchSamples(BatchShardData, Starts, BatchStart, BatchIdx + 1, garbage)

\* BatchTimeStepSamples[ArrayIndex]: the samples routed to the bucket.
Bucket(samples, BatchMinTimeStep, ArrayIndex) ==
    LET Here(x) == x.g - BatchMinTimeStep = ArrayIndex
        Strip(x) == [TrajectoryId |-> x.TrajectoryId, Position |-> x.Position]
        sel == SelectSeq(samples, Here)
    IN [i \in 1..Len(sel) |-> Strip(sel[i])]

\* The per-timestep builds and saves of a batch.  Tsteps: the time step
\* indices still to do; failed: the indices whose save fails; skipped: the
\* indices that saw bBuildError set and returned.
RECURSIVE SaveBatch(_, _, _, _, _, _, _, _)
SaveBatch(disk, samples, Config, BatchMinTimeStep, TimeStepIdx, BatchTimeSteps, failed, skipped) ==
    IF TimeStepIdx >= BatchTimeSteps THEN disk
    ELSE LET GlobalTimeStep == BatchMinTimeStep + TimeStepIdx
             Samples == Bucket(samples, BatchMinTimeStep, TimeStepIdx)
             HashTable == BuildHashTableForTimeStep(GlobalTimeStep, Samples, Config)
             r == SaveToFile(HashTable, TimeStepIdx \notin failed)
             next == IF Samples = <<>> \/ TimeStepIdx \in skipped \/ ~r.ok THEN disk
                     ELSE WriteFile(disk, GetOutputFilename(Config.CellSize, GlobalTimeStep), r.file)
         IN SaveBatch(next, samples, Config, BatchMinTimeStep, TimeStepIdx + 1,
                      BatchTimeSteps, failed, skipped)

\* One iteration of the batch loop of PASS 2, first half: the shards of the
\* batch loaded and their samples extracted.
LoadBatch(dir, ShardFiles, Starts, BatchStart, ok2, garbage) ==
    LET BatchEnd == Min2(BatchStart + BatchSize, Len(ShardFiles))
        b == LoadBatchFrom(dir, ShardFiles, Starts, BatchStart, BatchEnd, ok2, garbage,
                 [BatchShardData |-> <<>>, BatchMinTimeStep |-> Int32Max,
                  BatchMaxTimeStep |-> -Int32Max - 1, outOfRange |-> FALSE])
        samples == BatchSamples(b.BatchShardData, Starts, BatchStart, 0, garbage)
        BatchTimeSteps == IF b.BatchShardData = <<>> THEN 0
                          ELSE b.BatchMaxTimeStep - b.BatchMinTimeStep + 1
    IN [outOfRange |-> b.outOfRange,
        loaded |-> Len(b.BatchShardData),
        BatchMinTimeStep |-> b.BatchMinTimeStep,
        BatchTimeSteps |-> BatchTimeSteps,
        samples |-> samples,
        nonEmpty |-> {i \in 0..(BatchTimeSteps - 1) :
                         Bucket(samples, b.BatchMinTimeStep, i) # <<>>}]

\* Second half: [status, disk], status "ok", "error" (return false) or
\* "crash" (the range check of the array failed; checked: it is compiled in).
ProcessBatch(disk, Config, b, checked, failed, skipped) ==
    LET bBuildError == failed \cap b.nonEmpty # {}
    IN IF b.outOfRange /\ checked THEN [status |-> "crash", disk |-> disk]
       ELSE IF b.loaded = 0 THEN [status |-> "ok", disk |-> disk]
       ELSE [status |-> IF bBuildError THEN "error" ELSE "ok",
             disk |-> SaveBatch(disk, b.samples, Config, b.BatchMinTimeStep, 0,
                                b.BatchTimeSteps, failed,
                                IF bBuildError THEN skipped ELSE {})]

\* The batch loop from BatchStart on when every read and write succeeds.
RECURSIVE RunBatches(_, _, _, _, _, _)
RunBatches(dir, disk, ShardFiles, Starts, Config, BatchStart) ==
    IF BatchStart >= Len(ShardFiles) THEN [ok |-> TRUE, disk |-> disk]
    ELSE LET Batch(r) ==
                 IF r.status # "ok" THEN [ok |-> FALSE, disk |-> r.disk]
                 ELSE RunBatches(dir, r.disk, ShardFiles, Starts, Config,
                                 BatchStart + BatchSize)
         IN Batch(ProcessBatch(disk, Config,
                               LoadBatch(dir, ShardFiles, Starts, BatchStart,
                                         [i \in 1..Len(ShardFiles) |-> TRUE], 0),
                               TRUE, {}, {}))

\* BuildHashTablesIncrementallyFromShards when every read and write
\* succeeds: [ok, disk].
BuildHashTablesIncrementallyFromShards(dir, disk, CellSize, BoundingBoxMargin) ==
    LET Pass2(ShardFiles, p) ==
            IF ~p.ok THEN [ok |-> FALSE, disk |-> disk]
            ELSE RunBatches(dir, disk, ShardFiles, p.ShardStartTimeSteps,
                            [CellSize |-> CellSize, BBoxMin |-> p.BBoxMin,
                             BBoxMax |-> p.BBoxMax], 0)
        Passes(g) ==
            IF ~g.ok THEN [ok |-> FALSE, disk |-> disk]
            ELSE Pass2(g.files, Pass1(dir, g.files, [i \in 1..Len(g.files) |-> TRUE],
                                      BoundingBoxMargin))
    IN Passes(GetShardFiles(dir))

\* ---------------------------------------------- table lookups and reads
\* Binary search over Entries[Left..Right] (0-based); -1: not found.
RECURSIVE FindEntryIn(_, _, _, _)
FindEntryIn(Entries, Key, Left, Right) ==
    IF Left > Right THEN -1
    ELSE LET Mid == Left + (Right - Left) \div 2
         IN IF Entries[Mid + 1].ZOrderKey = Key THEN Mid
            ELSE IF Entries[Mid + 1].ZOrderKey < Key
            THEN FindEntryIn(Entries, Key, Mid + 1, Right)
            ELSE FindEntryIn(Entries, Key, Left, Mid - 1)

\* FindEntry that searches the lower half of the entries only.
FindEntry_LowerHalf(t, Key) == FindEntryIn(t.Entries, Key, 0, (Len(t.Entries) - 1) \div 2)

FindEntry(t, Key) == FindEntryIn(t.Entries, Key, 0, Len(t.Entries) - 1)

\* ReadTrajectoryIdsFromDisk that takes the id block to start right after
\* the header.
ReadTrajectoryIdsFromDisk_NoEntries(t, StartIndex, Count, disk) ==
    IF t.SourceFilePath = NoPath THEN [ok |-> FALSE, ids |-> <<>>]
    ELSE IF Count = 0 THEN [ok |-> TRUE, ids |-> <<>>]
    ELSE LET w == ReadWords(FileAt(disk, t.SourceFilePath),
                            HeaderBytes + StartIndex * IdBytes, Count * IdBytes)
         IN [ok |-> w # <<>>, ids |-> w]

\* Count ids from index StartIndex of the id block of the source file.
ReadTrajectoryIdsFromDisk(t, StartIndex, Count, disk) ==
    IF t.SourceFilePath = NoPath THEN [ok |-> FALSE, ids |-> <<>>]
    ELSE IF Count = 0 THEN [ok |-> TRUE, ids |-> <<>>]
    ELSE IF StartIndex >= t.Header.NumTrajectoryIds
            \/ StartIndex + Count > t.Header.NumTrajectoryIds
    THEN [ok |-> FALSE, ids |-> <<>>]
    ELSE LET file == FileAt(disk, t.SourceFilePath)
             TrajectoryIdsOffset == HeaderBytes + t.Header.NumEntries * EntryBytes
             ReadOffset == TrajectoryIdsOffset + StartIndex * IdBytes
             w == ReadWords(file, ReadOffset, Count * IdBytes)
         IN IF ~file.exists THEN [ok |-> FALSE, ids |-> <<>>]
            ELSE IF w = <<>> THEN [ok |-> FALSE, ids |-> [i \in 1..Count |-> 0]]
            ELSE [ok |-> TRUE, ids |-> w]

GetTrajectoryIdsForCell(t, EntryIndex, disk) ==
    IF EntryIndex < 0 \/ EntryIndex >= Len(t.Entries) THEN [ok |-> FALSE, ids |-> <<>>]
    ELSE LET Entry0 == t.Entries[EntryIndex + 1]
         IN IF Len(t.TrajectoryIds) > 0
            THEN IF Entry0.StartIndex < Len(t.TrajectoryIds)
                    /\ Entry0.StartIndex + Entry0.TrajectoryCount <= Len(t.TrajectoryIds)
                 THEN [ok |-> TRUE,
                       ids |-> SubSeq(t.TrajectoryIds, Entry0.StartIndex + 1,
                                      Entry0.StartIndex + Entry0.TrajectoryCount)]
                 ELSE [ok |-> FALSE, ids |-> <<>>]
            ELSE ReadTrajectoryIdsFromDisk(t, Entry0.StartIndex, Entry0.TrajectoryCount, disk)

QueryAtPosition(t, WorldPos, disk) ==
    LET EntryIndex == FindEntry(t, CellKey(WorldPos, t.Header.BBoxMin, t.Header.CellSize))
    IN IF EntryIndex >= 0 THEN GetTrajectoryIdsForCell(t, EntryIndex, disk)
       ELSE [ok |-> FALSE, ids |-> <<>>]

\* FMath::CeilToInt(Radius / CellSize).
CeilDiv(Radius, CellSize) == (Radius + CellSize - 1) \div CellSize

\* The cells of the candidate loop in loop order: dx outermost, dz innermost.
CellsAround(Center, CellRadius) ==
    LET n == 2 * CellRadius + 1
    IN [i \in 1..(n * n * n) |->
           <<Center[1] + ((i - 1) \div (n * n)) - CellRadius,
             Center[2] + (((i - 1) \div n) % n) - CellRadius,
             Center[3] + ((i - 1) % n) - CellRadius>>]

\* The ids of the entries of the cells lo..hi, in loop order.
RECURSIVE CellsIds(_, _, _, _, _)
CellsIds(t, cells, lo, hi, disk) ==
    IF lo > hi THEN <<>>
    ELSE IF lo = hi
    THEN LET EntryIndex == FindEntry(t, CalculateZOrderKey(cells[lo][1], cells[lo][2], cells[lo][3]))
         IN IF EntryIndex >= 0 THEN GetTrajectoryIdsForCell(t, EntryIndex, disk).ids ELSE <<>>
    ELSE LET mid == (lo + hi) \div 2
         IN CellsIds(t, cells, lo, mid, disk) \o CellsIds(t, cells, mid + 1, hi, disk)

\* Candidate id generation: the union of the entry ids of the
\* (2 * cellRadius + 1)^3 cells centred on the cell of the query point.
QueryTrajectoryIdsInRadius(t, QueryPosition, Radius, disk) ==
    LET CellRadius == CeilDiv(Radius, t.Header.CellSize)
        Center == WorldToCellCoordinates(QueryPosition, t.Header.BBoxMin, t.Header.CellSize)
        cells == CellsAround(Center, CellRadius)
    IN DistinctInOrder(CellsIds(t, cells, 1, Len(cells), disk))

DistSquared(a, b) ==
    (a[1] - b[1]) * (a[1] - b[1]) + (a[2] - b[2]) * (a[2] - b[2])
        + (a[3] - b[3]) * (a[3] - b[3])

\* ------------------------------------------------ exact-position fetch
\* The valid samples of one shard entry inside [StartTimeStep, EndTimeStep].
EntryPoints(Entry0, ShardStartTimeStep, StartTimeStep, EndTimeStep) ==
    LET all == [i \in 1..Len(Entry0.Positions) |->
                    [Position |-> Entry0.Positions[i],
                     TimeStep |-> ShardStartTimeStep + (i - 1), Distance |-> 0]]
        Keep(x) == /\ x.TimeStep >= StartTimeStep
                   /\ x.TimeStep <= EndTimeStep
                   /\ IsValidPos(x.Position)
    IN SelectSeq(all, Keep)

\* The samples one shard adds for trajectory TrajId.
RECURSIVE ShardPoints(_, _, _, _, _)
ShardPoints(Entries, TrajId, ShardStartTimeStep, StartTimeStep, EndTimeStep) ==
    IF Entries = <<>> THEN <<>>
    ELSE (IF Head(Entries).TrajectoryId = TrajId
          THEN EntryPoints(Head(Entries), ShardStartTimeStep, StartTimeStep, EndTimeStep)
          ELSE <<>>)
         \o ShardPoints(Tail(Entries), TrajId, ShardStartTimeStep, StartTimeStep, EndTimeStep)

\* The samples of trajectory TrajId over the shard files from index i on.
RECURSIVE FilesPoints(_, _, _, _, _, _, _)
FilesPoints(dir, ShardFiles, okq, i, TrajId, StartTimeStep, EndTimeStep) ==
    IF i > Len(ShardFiles) THEN <<>>
    ELSE LET sd == LoadShardFile(dir, ShardFiles[i], okq[i])
             ShardStartTimeStep == ParseTimestepFromFilename(ShardFiles[i])
             ShardEndTimeStep == ShardStartTimeStep + sd.IntervalSize - 1
         IN (IF ~sd.bSuccess \/ ShardEndTimeStep < StartTimeStep
                \/ ShardStartTimeStep > EndTimeStep
             THEN <<>>
             ELSE ShardPoints(sd.Entries, TrajId, ShardStartTimeStep, StartTimeStep, EndTimeStep))
            \o FilesPoints(dir, ShardFiles, okq, i + 1, TrajId, StartTimeStep, EndTimeStep)

\* [ok, data]: data lists, in the order of the map, each requested
\* trajectory with its samples.  okq[i]: the read of shard file i succeeds.
LoadTrajectorySamplesForIds(dir, TrajectoryIds, StartTimeStep, EndTimeStep, okq) ==
    IF TrajectoryIds = <<>> THEN [ok |-> TRUE, data |-> <<>>]
    ELSE LET g == GetShardFiles(dir)
             keys == DistinctInOrder(TrajectoryIds)
         IN IF ~g.ok THEN [ok |-> FALSE, data |-> <<>>]
            ELSE [ok |-> TRUE,
                  data |-> [k \in 1..Len(keys) |->
                      [TrajectoryId |-> keys[k],
                       SamplePoints |-> FilesPoints(dir, g.files, okq, 1, keys[k],
                                                    StartTimeStep, EndTimeStep)]]]

\* FilterByDistance with the distance test left out.
FilterByDistance_NoTest(QueryPosition, Radius, TrajectoryData) ==
    LET NonEmpty(x) == x.SamplePoints # <<>>
    IN SelectSeq(TrajectoryData, NonEmpty)

\* One result per trajectory with a sample within Radius; Distance is kept
\* squared.
FilterByDistance(QueryPosition, Radius, TrajectoryData) ==
    LET Near(x) == DistSquared(QueryPosition, x.Position) <= Radius * Radius
        Measured(x) == [x EXCEPT !.Distance = DistSquared(QueryPosition, x.Position)]
        Filtered(sp) == LET sel == SelectSeq(sp, Near)
                        IN [i \in 1..Len(sel) |-> Measured(sel[i])]
        all == [k \in 1..Len(TrajectoryData) |->
                   [TrajectoryId |-> TrajectoryData[k].TrajectoryId,
                    SamplePoints |-> Filtered(TrajectoryData[k].SamplePoints)]]
        NonEmpty(x) == x.SamplePoints # <<>>
    IN SelectSeq(all, NonEmpty)

\* ------------------------------------------------------ manager: cache
Abs(x) == IF x < 0 THEN -x ELSE x
IsNearlyEqual(A, B, ErrorTolerance) == Abs(A - B) <= ErrorTolerance

\* FHashTableKey and its operator==.
HashTableKey(CellSize, TimeStep) == [CellSize |-> CellSize, TimeStep |-> TimeStep]
KeyEquals(a, b) ==
    IsNearlyEqual(a.CellSize, b.CellSize, CellSizeEpsilon) /\ a.TimeStep = b.TimeStep

\* The cache LoadedHashTables is a function from keys to [id, table], id
\* naming the shared table object.  A lookup compares, with operator==, the
\* keys of the bucket the hash of Key selects: a stored key identical to Key
\* is in that bucket; a key that is equal without being identical may or may
\* not be.  Lookups: the keys a lookup of Key can end on, NoKey for a miss.
NoKey == [none |-> TRUE]
NullPtr == [id |-> 0, shared |-> FALSE, table |-> NoTable]
Lookups(cache, Key) ==
    LET equal == {k \in DOMAIN cache : KeyEquals(k, Key)}
    IN IF Key \in DOMAIN cache THEN equal ELSE equal \cup {NoKey}

Put(f, k, v) == [q \in DOMAIN f \cup {k} |-> IF q = k THEN v ELSE f[q]]

\* IsHashTableLoaded: LoadedHashTables.Contains(Key).
IsHashTableLoaded(cache, CellSize, TimeStep, pick) == pick # NoKey

\* GetHashTable with the raw pointer of the table in place of the shared one.
GetHashTable_Raw(cache, CellSize, TimeStep, pick) ==
    IF pick = NoKey THEN NullPtr
    ELSE [id |-> cache[pick].id, shared |-> FALSE, table |-> cache[pick].table]

\* The pointer returned: the table object id, whether the pointer shares the
\* ownership of the object (TSharedPtr), and the table it points to.
GetHashTable(cache, CellSize, TimeStep, pick) ==
    IF pick = NoKey THEN NullPtr
    ELSE [id |-> cache[pick].id, shared |-> TRUE, table |-> cache[pick].table]

\* LoadHashTable without the validation of the header against the request.
LoadHashTable_Unvalidated(cache, disk, FilePath, CellSize, TimeStep, pick, id) ==
    LET Loaded(r) ==
            IF ~r.ok THEN [ok |-> FALSE, cache |-> cache]
            ELSE [ok |-> TRUE,
                  cache |-> Put(cache, HashTableKey(CellSize, TimeStep),
                                [id |-> id, table |-> r.table])]
    IN IF pick # NoKey THEN [ok |-> TRUE, cache |-> cache]
       ELSE Loaded(LoadFromFile(EmptyTable, FilePath, FileAt(disk, FilePath)))

\* pick: where the lookup of the key ends; id: the new table object.
LoadHashTable(cache, disk, FilePath, CellSize, TimeStep, pick, id) ==
    LET Loaded(r) ==
            IF ~r.ok THEN [ok |-> FALSE, cache |-> cache]
            ELSE IF ~IsNearlyEqual(r.table.Header.CellSize, CellSize, CellSizeEpsilon)
            THEN [ok |-> FALSE, cache |-> cache]
            ELSE IF r.table.Header.TimeStep # TimeStep THEN [ok |-> FALSE, cache |-> cache]
            ELSE [ok |-> TRUE,
                  cache |-> Put(cache, HashTableKey(CellSize, TimeStep),
                                [id |-> id, table |-> r.table])]
    IN IF pick # NoKey THEN [ok |-> TRUE, cache |-> cache]
       ELSE Loaded(LoadFromFile(EmptyTable, FilePath, FileAt(disk, FilePath)))

CheckHashTablesExist(disk, CellSize, StartTimeStep, EndTimeStep) ==
    \A TimeStep \in StartTimeStep..EndTimeStep :
        FileAt(disk, GetOutputFilename(CellSize, TimeStep)).exists

\* [ok, disk]
TryCreateHashTables(dir, disk, CellSize) ==
    IF ~dir.exists THEN [ok |-> FALSE, disk |-> disk]
    ELSE BuildHashTablesIncrementallyFromShards(dir, disk, CellSize, Unit)

\* The loading loop of LoadHashTables from TimeStep on: [count, cache].
\* picks[t]: where the lookup for time step t ends; table t gets the object
\* id firstId + (t - StartTimeStep).
RECURSIVE LoadRange(_, _, _, _, _, _, _, _)
LoadRange(cache, disk, CellSize, StartTimeStep, TimeStep, EndTimeStep, picks, firstId) ==
    IF TimeStep > EndTimeStep THEN [count |-> 0, cache |-> cache]
    ELSE LET Sum(ok, rest) ==
                 [count |-> (IF ok THEN 1 ELSE 0) + rest.count, cache |-> rest.cache]
             Then(r) ==
                 Sum(r.ok, LoadRange(r.cache, disk, CellSize, StartTimeStep, TimeStep + 1,
                                     EndTimeStep, picks, firstId))
         IN Then(LoadHashTable(cache, disk, GetOutputFilename(CellSize, TimeStep),
                               CellSize, TimeStep, picks[TimeStep],
                               firstId + (TimeStep - StartTimeStep)))

\* The picks a call for [StartTimeStep, EndTimeStep] can see.
RangePicks(cache, CellSize, StartTimeStep, EndTimeStep) ==
    {f \in [StartTimeStep..EndTimeStep -> DOMAIN cache \cup {NoKey}] :
        \A t \in StartTimeStep..EndTimeStep :
            f[t] \in Lookups(cache, HashTableKey(CellSize, t))}

\* LoadHashTables after TryCreateHashTables has returned c: the failure
\* return or the loading loop.  tried: TryCreateHashTables was called.
LoadAfterCreate(cache, c, CellSize, StartTimeStep, EndTimeStep, picks, firstId) ==
    LET Loaded(l) == [count |-> l.count, cache |-> l.cache, disk |-> c.disk, tried |-> TRUE,
                      built |-> TRUE]
    IN IF ~c.ok THEN [count |-> 0, cache |-> cache, disk |-> c.disk, tried |-> TRUE,
                      built |-> FALSE]
       ELSE Loaded(LoadRange(cache, c.disk, CellSize, StartTimeStep, StartTimeStep,
                             EndTimeStep, picks, firstId))

\* LoadHashTables that creates the missing tables whatever bAutoCreate says.
LoadHashTables_IgnoreAutoCreate(cache, disk, dir, CellSize, StartTimeStep, EndTimeStep, bAutoCreate, picks, firstId) ==
    LET none == [count |-> 0, cache |-> cache, disk |-> disk, tried |-> FALSE]
        Loaded(l) == [count |-> l.count, cache |-> l.cache, disk |-> disk, tried |-> FALSE]
    IN IF StartTimeStep > EndTimeStep THEN none
       ELSE IF ~CheckHashTablesExist(disk, CellSize, StartTimeStep, EndTimeStep)
       THEN LoadAfterCreate(cache, TryCreateHashTables(dir, disk, CellSize), CellSize,
                            StartTimeStep, EndTimeStep, picks, firstId)
       ELSE Loaded(LoadRange(cache, disk, CellSize, StartTimeStep, StartTimeStep,
                             EndTimeStep, picks, firstId))

\* LoadHashTables: [count, cache, disk, tried].
LoadHashTables(cache, disk, dir, CellSize, StartTimeStep, EndTimeStep, bAutoCreate, picks, firstId) ==
    LET bHashTablesExist == CheckHashTablesExist(disk, CellSize, StartTimeStep, EndTimeStep)
        none == [count |-> 0, cache |-> cache, disk |-> disk, tried |-> FALSE]
        Loaded(l) == [count |-> l.count, cache |-> l.cache, disk |-> disk, tried |-> FALSE]
    IN IF StartTimeStep > EndTimeStep THEN none
       ELSE IF ~bHashTablesExist /\ bAutoCreate
       THEN LoadAfterCreate(cache, TryCreateHashTables(dir, disk, CellSize), CellSize,
                            StartTimeStep, EndTimeStep, picks, firstId)
       ELSE IF ~bHashTablesExist THEN none
       ELSE Loaded(LoadRange(cache, disk, CellSize, StartTimeStep, StartTimeStep,
                             EndTimeStep, picks, firstId))

\* UnloadHashTables with exact comparison of the cell sizes.
UnloadHashTables_ExactSize(cache, CellSize) ==
    LET keep == {k \in DOMAIN cache : k.CellSize # CellSize}
    IN [k \in keep |-> cache[k]]

\* UnloadHashTables and UnloadAllHashTables: the cache left.  Remove(Key) is
\* called with the stored keys themselves: a stored key is in the bucket of
\* its own hash, and no other key equal to it can be in that bucket, since
\* Add would have replaced it instead of adding a second one.
UnloadHashTables(cache, CellSize) ==
    LET keep == {k \in DOMAIN cache : ~IsNearlyEqual(k.CellSize, CellSize, CellSizeEpsilon)}
    IN [k \in keep |-> cache[k]]

UnloadAllHashTables(cache) == <<>>

\* ------------------------------------------------------ manager: queries
Ids(results) == [i \in 1..Len(results) |-> results[i].TrajectoryId]

\* Mode A.  t: the table GetHashTable returned.
QueryRadiusWithDistanceCheck(t, disk, dir, QueryPosition, Radius, TimeStep, okq) ==
    IF t = NoTable THEN <<>>
    ELSE LET CandidateTrajectoryIds == QueryTrajectoryIdsInRadius(t, QueryPosition, Radius, disk)
             d == LoadTrajectorySamplesForIds(dir, CandidateTrajectoryIds, TimeStep, TimeStep, okq)
         IN IF CandidateTrajectoryIds = <<>> \/ ~d.ok THEN <<>>
            ELSE FilterByDistance(QueryPosition, Radius, d.data)

\* The placeholder: the position of every trajectory is the zero vector.
GetTrajectoryPosition(TrajectoryId, TimeStep) == <<0, 0, 0>>

\* Mode A, legacy form: [TrajectoryId, Distance] per trajectory found, the
\* distance measured to GetTrajectoryPosition.
QueryFixedRadiusNeighbors(t, disk, QueryPosition, Radius, CellSize, TimeStep) ==
    IF t = NoTable THEN <<>>
    ELSE LET CellRadius == CeilDiv(Radius, CellSize)
             Center == WorldToCellCoordinates(QueryPosition, t.Header.BBoxMin, t.Header.CellSize)
             cells == CellsAround(Center, CellRadius)
             found == DistinctInOrder(CellsIds(t, cells, 1, Len(cells), disk))
             Near(id) == DistSquared(QueryPosition, GetTrajectoryPosition(id, TimeStep))
                             <= Radius * Radius
             sel == SelectSeq(found, Near)
         IN [i \in 1..Len(sel) |->
                [TrajectoryId |-> sel[i],
                 Distance |-> DistSquared(QueryPosition, GetTrajectoryPosition(sel[i], TimeStep))]]

\* ----------------------------------------------- table life cycle (SpecTable)
TablePositions == {<<x * Unit, 0, 0>> : x \in 0..MaxCoord} \cup {<<0, Unit, 0>>}
TableIds == {1, 2}
TableSamples == [TrajectoryId : TableIds, Position : TablePositions]
TableConfigs ==
    {[CellSize |-> Unit, BBoxMin |-> <<0, 0, 0>>,
      BBoxMax |-> <<MaxCoord * Unit, Unit, 0>>, TimeStep |-> 0],
     [CellSize |-> 2 * Unit, BBoxMin |-> <<0, 0, 0>>,
      BBoxMax |-> <<MaxCoord * Unit, Unit, 0>>, TimeStep |-> 1],
     [CellSize |-> Unit, BBoxMin |-> <<Unit, 0, 0>>,
      BBoxMax |-> <<MaxCoord * Unit, Unit, 0>>, TimeStep |-> 2]}

SeqsUpTo(S, n) == UNION {[1..k -> S] : k \in 0..n}

\* No QueryAtPosition made yet.
NoPoint == [WorldPos |-> <<0, 0, 0>>, made |-> FALSE]

\* The group of a part of the program that a specification does not run.
TOff ==
    /\ tpc = "off"
    /\ tSamples = <<>>
    /\ tConfig = [CellSize |-> Unit, BBoxMin |-> <<0, 0, 0>>, BBoxMax |-> <<0, 0, 0>>, TimeStep |-> 0]
    /\ tTable = NoTable
    /\ tFile = NoFile
    /\ tLoaded = NoTable
    /\ tQuery = NoPoint

BOff ==
    /\ bpc = "off"
    /\ bDir = NoDirectory
    /\ bCellSize = Unit
    /\ bFiles = <<>>
    /\ bStarts = <<>>
    /\ bBBox = <<<<0, 0, 0>>, <<0, 0, 0>>>>
    /\ bBatchStart = 0
    /\ bDisk = NoFiles
    /\ bFaults = 0

NoQuery == [mode |-> "none", q |-> <<0, 0, 0>>, r |-> 0, ts |-> 0]

QOff ==
    /\ qpc = "off"
    /\ qDir = NoDirectory
    /\ qCellSize = Unit
    /\ qDisk = NoFiles
    /\ qCache = <<>>
    /\ qQuery = NoQuery
    /\ qResult = <<>>

\* The owner thread outside every call, the background task not started,
\* no load call made yet.
Idle == [pc |-> "idle", CellSize |-> Unit, StartTimeStep |-> 0, EndTimeStep |-> 0]
NoTask == [pc |-> "none", CellSize |-> Unit, StartTimeStep |-> 0, EndTimeStep |-> 0,
           bSuccess |-> FALSE]
NoCall == [op |-> "none", missing |-> FALSE, bAutoCreate |-> FALSE, tried |-> FALSE,
           ok |-> FALSE, count |-> 0, unchanged |-> TRUE]

MOff ==
    /\ mOwner = [Idle EXCEPT !.pc = "off"]
    /\ mDir = NoDirectory
    /\ mDisk = NoFiles
    /\ mCache = <<>>
    /\ mCreating = FALSE
    /\ mTask = NoTask
    /\ mQueries = <<>>
    /\ mLive = {}
    /\ mLast = NoCall
    /\ mOps = 0

AOff ==
    /\ aTasks = <<>>
    /\ aPending = {}

EOff ==
    /\ epc = "off"
    /\ eCell = <<0, 0, 0>>
    /\ eKey = {}

GOff ==
    /\ gpc = "off"
    /\ gCellSize = 1
    /\ gPoints = <<>>
    /\ gGrid = <<>>
    /\ gQuery = [op |-> "none"]

WOff ==
    /\ wpc = "off"
    /\ wShards = <<>>
    /\ wNext = <<>>
    /\ wBuckets = <<>>
    /\ wTables = <<>>

NOff ==
    /\ nPositions = <<>>
    /\ nCachedPoints = <<>>
    /\ nCachedResults = <<>>
    /\ nCalls = <<>>
    /\ nQueries = {}
    /\ nAlive = FALSE

XOff == EOff /\ GOff /\ WOff /\ NOff

TInit ==
    /\ tpc = "init"
    /\ tSamples \in SeqsUpTo(TableSamples, MaxSamples)
    /\ tConfig \in TableConfigs
    /\ tTable = NoTable
    /\ tFile = NoFile
    /\ tLoaded = NoTable
    /\ tQuery = NoPoint

TBuild ==
    /\ tpc = "init"
    /\ tTable' = BuildHashTableForTimeStep(tConfig.TimeStep, tSamples, tConfig)
    /\ tpc' = "built"
    /\ UNCHANGED <<tSamples, tConfig, tFile, tLoaded, tQuery, bvars, qvars, mvars, avars, xvars>>

TSave ==
    /\ tpc = "built"
    /\ \E ioOk \in BOOLEAN :
          LET r == SaveToFile(tTable, ioOk)
          IN /\ tFile' = r.file
             /\ tpc' = IF r.ok THEN "saved" ELSE "savefailed"
    /\ UNCHANGED <<tSamples, tConfig, tTable, tLoaded, tQuery, bvars, qvars, mvars, avars, xvars>>

TLoad ==
    /\ tpc = "saved"
    /\ LET r == LoadFromFile(EmptyTable, [name |-> "test_hashtable.bin"], tFile)
       IN /\ tLoaded' = r.table
          /\ tpc' = IF r.ok THEN "loaded" ELSE "loadfailed"
    /\ UNCHANGED <<tSamples, tConfig, tTable, tFile, tQuery, bvars, qvars, mvars, avars, xvars>>

\* The points queried: the sample positions, one cell below the bounding
\* box on the x axis and one or more cells beyond it.
TableQueryPoints == {<<x * Unit, 0, 0>> : x \in (-1)..(MaxCoord + 2)}

\* The saved file under the path the loaded table remembers.
TableDisk == WriteFile(NoFiles, [name |-> "test_hashtable.bin"], tFile)

\* QueryAtPosition of one point on the table in memory (ids resident) and on
\* the table loaded from the file (ids read on demand); EntryIndex is what
\* FindEntry returned for the key of the point.
TQuery ==
    /\ tpc = "loaded"
    /\ \E WorldPos \in TableQueryPoints :
          tQuery' = [WorldPos |-> WorldPos, made |-> TRUE,
                     Key |-> CellKey(WorldPos, tTable.Header.BBoxMin, tTable.Header.CellSize),
                     EntryIndex |-> FindEntry(tTable, CellKey(WorldPos, tTable.Header.BBoxMin,
                                                              tTable.Header.CellSize)),
                     resident |-> QueryAtPosition(tTable, WorldPos, TableDisk),
                     onDemand |-> QueryAtPosition(tLoaded, WorldPos, TableDisk)]
    /\ tpc' = "queried"
    /\ UNCHANGED <<tSamples, tConfig, tTable, tFile, tLoaded, bvars, qvars, mvars, avars, xvars>>

TNext == TBuild \/ TSave \/ TLoad \/ TQuery

InitTable == TInit /\ BOff /\ QOff /\ MOff /\ AOff /\ XOff

SpecTable == InitTable /\ [][TNext]_vars

\* ------------------------------------------- incremental build (SpecBuild)
BuildPositions == {NaN, <<0, 0, 0>>, <<Unit, 0, 0>>}

Entry(TrajectoryId, Positions) ==
    [TrajectoryId |-> TrajectoryId,
     ValidSampleCount |-> Cardinality({i \in 1..Len(Positions) : IsValidPos(Positions[i])}),
     Positions |-> Positions]

\* The shard contents the datasets are made of: interval size 2, two
\* trajectories.
ShardContents ==
    {[IntervalSize |-> 2,
      Entries |-> <<Entry(1, <<<<0, 0, 0>>, <<Unit, 0, 0>>>>), Entry(2, <<NaN, <<0, 0, 0>>>>)>>],
     [IntervalSize |-> 2,
      Entries |-> <<Entry(1, <<NaN, NaN>>), Entry(2, <<<<Unit, 0, 0>>, NaN>>)>>],
     [IntervalSize |-> 2,
      Entries |-> <<Entry(1, <<<<0, 0, 0>>, NaN>>), Entry(2, <<<<0, 0, 0>>, NaN>>)>>]}

RECURSIVE Digits(_)
Digits(n) == IF n < 10 THEN <<n>> ELSE Append(Digits(n \div 10), n % 10)

\* Shard k (0-based) of a dataset is the file "shard-<2k>.bin".
ShardNames(n) == {Digits(2 * k) : k \in 0..(n - 1)}

BuildDatasets ==
    {NoDirectory, [exists |-> TRUE, shards |-> <<>>]}
    \cup UNION {{[exists |-> TRUE, shards |-> f] : f \in [ShardNames(n) -> ShardContents]} :
                    n \in 1..MaxShards}

BInit ==
    /\ bpc = "idle"
    /\ bDir \in BuildDatasets
    /\ bCellSize = Unit
    /\ bFiles = <<>>
    /\ bStarts = <<>>
    /\ bBBox = <<<<0, 0, 0>>, <<0, 0, 0>>>>
    /\ bBatchStart = 0
    /\ bDisk = NoFiles
    /\ bFaults = 0

\* The outcomes of n I/O operations with at most k failures.
Outcomes(n, k) == {f \in [1..n -> BOOLEAN] : Cardinality({i \in 1..n : ~f[i]}) <= k}
Failures(f) == Cardinality({i \in DOMAIN f : ~f[i]})

\* Entry of BuildHashTablesIncrementallyFromShards: discovery, PASS 1, the
\* margin and the creation of the output directory.
BStart ==
    /\ bpc = "idle"
    /\ LET g == GetShardFiles(bDir)
       IN IF ~g.ok
          THEN /\ bpc' = "failed"
               /\ UNCHANGED <<bFiles, bStarts, bBBox, bFaults>>
          ELSE \E ok1 \in Outcomes(Len(g.files), MaxFaults - bFaults) :
               \E dirOk \in {b \in BOOLEAN : b \/ bFaults + Failures(ok1) < MaxFaults} :
                  LET p == Pass1(bDir, g.files, ok1, Unit)
                  IN /\ bFiles' = g.files
                     /\ bStarts' = p.ShardStartTimeSteps
                     /\ bBBox' = <<p.BBoxMin, p.BBoxMax>>
                     /\ bFaults' = bFaults + Failures(ok1) + (IF dirOk THEN 0 ELSE 1)
                     /\ bpc' = IF p.ok /\ dirOk THEN "pass2" ELSE "failed"
    /\ UNCHANGED <<bDir, bCellSize, bBatchStart, bDisk, tvars, qvars, mvars, avars, xvars>>

\* One batch of PASS 2.
BBatch ==
    /\ bpc = "pass2"
    /\ bBatchStart < Len(bFiles)
    /\ \E ok2 \in Outcomes(Len(bFiles), MaxFaults - bFaults) :
       \E garbage \in IF Len(bStarts) < Len(bFiles) THEN 0..2 ELSE {0} :
       \E checked \in IF Len(bStarts) < Len(bFiles) THEN BOOLEAN ELSE {TRUE} :
       \E b \in {LoadBatch(bDir, bFiles, bStarts, bBatchStart, ok2, garbage)} :
          LET cfg == [CellSize |-> bCellSize, BBoxMin |-> bBBox[1], BBoxMax |-> bBBox[2]]
              canFail == bFaults + Failures(ok2) < MaxFaults /\ ~(b.outOfRange /\ checked)
          IN /\ \A i \in 1..Len(bFiles) :
                    (i <= bBatchStart \/ i > bBatchStart + BatchSize) => ok2[i]
             /\ \E failed \in {{}} \cup {{i} : i \in IF canFail THEN b.nonEmpty ELSE {}} :
                \E skipAll \in IF failed = {} THEN {FALSE} ELSE BOOLEAN :
                \E r \in {ProcessBatch(bDisk, cfg, b, checked, failed,
                                       IF skipAll THEN b.nonEmpty ELSE {})} :
                      /\ bDisk' = r.disk
                      /\ bFaults' = bFaults + Failures(ok2)
                                      + (IF r.status = "error" THEN 1 ELSE 0)
                      /\ bpc' = CASE r.status = "crash" -> "crashed"
                                  [] r.status = "error" -> "failed"
                                  [] OTHER -> "pass2"
                      /\ bBatchStart' = IF r.status = "ok" THEN bBatchStart + BatchSize
                                        ELSE bBatchStart
    /\ UNCHANGED <<bDir, bCellSize, bFiles, bStarts, bBBox, tvars, qvars, mvars, avars, xvars>>

\* The batch loop has run out: return true.
BFinish ==
    /\ bpc = "pass2"
    /\ bBatchStart >= Len(bFiles)
    /\ bpc' = "done"
    /\ UNCHANGED <<bDir, bCellSize, bFiles, bStarts, bBBox, bBatchStart, bDisk, bFaults, tvars, qvars, mvars, avars, xvars>>

BNext == BStart \/ BBatch \/ BFinish

InitBuild == BInit /\ TOff /\ QOff /\ MOff /\ AOff /\ XOff

SpecBuild == InitBuild /\ [][BNext]_vars

\* The trajectories of the dataset that have a valid position at global
\* time step t, and the ids stored in a hash-table file.
TrajectoriesAt(dir, t) ==
    {dir.shards[n].Entries[e].TrajectoryId :
        <<n, e>> \in {<<n, e>> \in (DOMAIN dir.shards) \X (1..2) :
            /\ e <= Len(dir.shards[n].Entries)
            /\ t - Atoi(n) \in 0..(dir.shards[n].IntervalSize - 1)
            /\ IsValidPos(dir.shards[n].Entries[e].Positions[t - Atoi(n) + 1])}}

FileIds(file) ==
    LET h == ParseHeader(ReadWords(file, 0, HeaderBytes))
    IN ReadWords(file, HeaderBytes + EntryBytes * h.NumEntries, IdBytes * h.NumTrajectoryIds)

BuildTimeSteps == 0..(2 * MaxShards + 3)

\* C4: after a build that returned true, a table file for time step t exists
\* exactly when some trajectory of the dataset has a valid position at t, and
\* the ids stored in it are exactly those trajectories, each once.
C4_FilesMatchDataset ==
    bpc = "done" =>
        /\ \A path \in DOMAIN bDisk : path.timestep \in BuildTimeSteps
        /\ \A t \in BuildTimeSteps :
              LET path == GetOutputFilename(bCellSize, t)
                  ids == FileIds(FileAt(bDisk, path))
              IN /\ path \in DOMAIN bDisk <=> TrajectoriesAt(bDir, t) # {}
                 /\ path \in DOMAIN bDisk =>
                        /\ Range(ids) = TrajectoriesAt(bDir, t)
                        /\ Len(ids) = Cardinality(TrajectoriesAt(bDir, t))

\* ------------------------------------------- single-timestep query (SpecQuery)
QueryPositions == {<<x * Unit, 0, 0>> : x \in 0..MaxCoord}

\* One shard of two time steps: both trajectories anywhere (or missing) at
\* time step 0, trajectory 1 at the origin or missing at time step 1.
QueryDatasets ==
    {[exists |-> TRUE,
      shards |-> [n \in {<<0>>} |->
          [IntervalSize |-> 2,
           Entries |-> <<Entry(1, <<a, c>>), Entry(2, <<b, NaN>>)>>]]] :
        a \in QueryPositions \cup {NaN}, b \in QueryPositions \cup {NaN},
        c \in {NaN, <<0, 0, 0>>}}

QueryPoints == {<<x * Unit, y * Unit, 0>> : x \in (-1)..(MaxCoord + 1), y \in 0..1}
QueryRadii == {(k * Unit) \div 2 : k \in 0..MaxRadius}

QInit ==
    /\ qpc = "init"
    /\ qDir \in QueryDatasets
    /\ qCellSize \in {Unit, 2 * Unit}
    /\ qDisk = NoFiles
    /\ qCache = <<>>
    /\ qQuery = NoQuery
    /\ qResult = <<>>

\* LoadHashTables(dataset, cellSize, 0, 1, autoCreate = true) on a fresh
\* manager: the tables are built from the dataset and loaded.
QLoad ==
    /\ qpc = "init"
    /\ \E picks \in RangePicks(qCache, qCellSize, 0, 1) :
          LET r == LoadHashTables(qCache, qDisk, qDir, qCellSize, 0, 1, TRUE, picks, 1)
          IN /\ qCache' = r.cache
             /\ qDisk' = r.disk
    /\ qpc' = "loaded"
    /\ UNCHANGED <<qDir, qCellSize, qQuery, qResult, tvars, bvars, mvars, avars, xvars>>

QQueryRadius ==
    /\ qpc = "loaded"
    /\ \E q \in QueryPoints, r \in QueryRadii, ts \in 0..1 :
       \E pick \in Lookups(qCache, HashTableKey(qCellSize, ts)) :
          /\ qQuery' = [mode |-> "radius", q |-> q, r |-> r, ts |-> ts]
          /\ qResult' = Ids(QueryRadiusWithDistanceCheck(
                               GetHashTable(qCache, qCellSize, ts, pick).table,
                               qDisk, qDir, q, r, ts, <<TRUE>>))
    /\ qpc' = "done"
    /\ UNCHANGED <<qDir, qCellSize, qDisk, qCache, tvars, bvars, mvars, avars, xvars>>

QQueryFixed ==
    /\ qpc = "loaded"
    /\ \E q \in QueryPoints, r \in QueryRadii, ts \in 0..1 :
       \E pick \in Lookups(qCache, HashTableKey(qCellSize, ts)) :
          /\ qQuery' = [mode |-> "fixed", q |-> q, r |-> r, ts |-> ts]
          /\ qResult' = Ids(QueryFixedRadiusNeighbors(
                               GetHashTable(qCache, qCellSize, ts, pick).table,
                               qDisk, q, r, qCellSize, ts))
    /\ qpc' = "done"
    /\ UNCHANGED <<qDir, qCellSize, qDisk, qCache, tvars, bvars, mvars, avars, xvars>>

QNext == QLoad \/ QQueryRadius \/ QQueryFixed

InitQuery == QInit /\ TOff /\ BOff /\ MOff /\ AOff /\ XOff

SpecQuery == InitQuery /\ [][QNext]_vars

\* The trajectories with a valid sample at ts within r of q.
WithinRadius(dir, q, r, ts) ==
    {dir.shards[n].Entries[e].TrajectoryId :
        <<n, e>> \in {<<n, e>> \in (DOMAIN dir.shards) \X (1..2) :
            /\ e <= Len(dir.shards[n].Entries)
            /\ ts - Atoi(n) \in 0..(dir.shards[n].IntervalSize - 1)
            /\ IsValidPos(dir.shards[n].Entries[e].Positions[ts - Atoi(n) + 1])
            /\ DistSquared(q, dir.shards[n].Entries[e].Positions[ts - Atoi(n) + 1]) <= r * r}}

\* C1: a single-timestep radius query returns exactly the trajectories that
\* have a valid sample at the time step within the radius of the query
\* point, none missing, none farther away, none twice.
C1_RadiusQueryExact ==
    qpc = "done" =>
        /\ Range(qResult) = WithinRadius(qDir, qQuery.q, qQuery.r, qQuery.ts)
        /\ Len(qResult) = Cardinality(Range(qResult))

\* C2: the table produced by the per-timestep builder has exactly one entry
\* per distinct cell key of the samples, keys strictly ascending, and the
\* entry slices partition [0, numIds) in key order: the first slice starts
\* at 0, each next slice starts where the previous one ends, the last one
\* ends at numIds, and numIds is the number of samples.
C2_BuilderPartition ==
    tpc \in {"built", "saved", "savefailed", "loaded", "loadfailed", "queried"} =>
        LET es == tTable.Entries
            n == Len(es)
            cellKeys == {CellKey(tSamples[i].Position, tConfig.BBoxMin, tConfig.CellSize) :
                            i \in 1..Len(tSamples)}
        IN /\ {es[i].ZOrderKey : i \in 1..n} = cellKeys
           /\ n = Cardinality(cellKeys)
           /\ \A i \in 2..n : es[i - 1].ZOrderKey < es[i].ZOrderKey
           /\ n > 0 => es[1].StartIndex = 0
           /\ \A i \in 2..n : es[i].StartIndex = es[i - 1].StartIndex + es[i - 1].TrajectoryCount
           /\ n > 0 => es[n].StartIndex + es[n].TrajectoryCount = tTable.Header.NumTrajectoryIds
           /\ \A i \in 1..n : es[i].TrajectoryCount > 0
           /\ tTable.Header.NumTrajectoryIds = Len(tSamples)
           /\ Len(tTable.TrajectoryIds) = Len(tSamples)
           /\ tTable.Header.NumEntries = n

\* A table built from samples whose insertion order of cells differs from
\* the key order, with a cell holding two ids.
C2_Witness ==
    /\ tpc = "built"
    /\ Len(tTable.Entries) = 2
    /\ tTable.Entries[1].TrajectoryCount = 2
    /\ CellKey(tSamples[1].Position, tConfig.BBoxMin, tConfig.CellSize)
         > CellKey(tSamples[2].Position, tConfig.BBoxMin, tConfig.CellSize)

\* C3: a saved and re-loaded table equals the original (header, entries and
\* the trajectory-id array, index by index) and passes Validate().
C3_RoundTripEqual ==
    tpc = "loaded" =>
        /\ tLoaded.Header = tTable.Header
        /\ tLoaded.Entries = tTable.Entries
        /\ Len(tLoaded.TrajectoryIds) = Len(tTable.TrajectoryIds)
        /\ \A i \in 1..Len(tTable.TrajectoryIds) :
                tLoaded.TrajectoryIds[i] = tTable.TrajectoryIds[i]
        /\ Validate(tLoaded)

\* ------------------------------------------- manager life cycle (SpecManager)
\* Ownership of the table objects: the cache holds one shared reference per
\* entry, a query one per shared pointer it holds; an object is destroyed
\* when its last shared reference goes.
CacheIds(cache) == {cache[k].id : k \in DOMAIN cache}
HeldIds(queries) == {queries[i].id : i \in {j \in 1..Len(queries) : queries[j].shared}}
Alive(live, cache, queries) ==
    (live \cup CacheIds(cache)) \cap (CacheIds(cache) \cup HeldIds(queries))

\* The first of n consecutive object ids that no live object has.
FreeId(live, n) ==
    CHOOSE f \in 1..(MaxObjects + 2 * MaxOps + 1) :
        /\ \A k \in f..(f + n - 1) : k \notin live
        /\ \A g \in 1..(f - 1) : \E k \in g..(g + n - 1) : k \in live

\* CreateHashTablesAsync on the owner thread: [creating, task].
CreateHashTablesAsync(creating, task, CellSize, StartTimeStep, EndTimeStep) ==
    IF creating THEN [creating |-> TRUE, task |-> task]
    ELSE [creating |-> TRUE,
          task |-> [pc |-> "queued", CellSize |-> CellSize,
                    StartTimeStep |-> StartTimeStep, EndTimeStep |-> EndTimeStep,
                    bSuccess |-> FALSE]]

\* The background task that also loads the tables it has built.
BuildTask_LoadsOnWorker(cache, dir, disk, CellSize, StartTimeStep, EndTimeStep) ==
    LET Built(r) ==
            [bSuccess |-> r.ok, disk |-> r.disk,
             cache |-> LoadRange(cache, r.disk, CellSize, StartTimeStep, StartTimeStep,
                                 EndTimeStep, [t \in StartTimeStep..EndTimeStep |-> NoKey],
                                 1).cache]
    IN Built(BuildHashTablesIncrementallyFromShards(dir, disk, CellSize, Unit))

\* The build of the background task: [bSuccess, disk, cache].
BuildTask(cache, dir, disk, CellSize, StartTimeStep, EndTimeStep) ==
    LET Built(r) == [bSuccess |-> r.ok, disk |-> r.disk, cache |-> cache]
    IN Built(BuildHashTablesIncrementallyFromShards(dir, disk, CellSize, Unit))

\* Trajectory 1 at the origin at time step 0 and, in one dataset, at time
\* step 1 as well.
ManagerDatasets ==
    {NoDirectory} \cup
    {[exists |-> TRUE,
      shards |-> [n \in {<<0>>} |->
          [IntervalSize |-> 2, Entries |-> <<Entry(1, <<<<0, 0, 0>>, p>>)>>]]] :
        p \in {<<0, 0, 0>>, NaN}}

\* No file yet, or a file too short to hold a header in the place of the
\* table of time step 1.
ManagerDisks ==
    {NoFiles,
     WriteFile(NoFiles, GetOutputFilename(Unit, 1), [exists |-> TRUE, words |-> <<0>>])}

\* Cell sizes 1.0, 1.0 + 1/3000 (closer than the tolerance), 1.001 (at the
\* tolerance) and 1.002 (beyond it).
ManagerCellSizes == {Unit, Unit + 1, Unit + CellSizeEpsilon, Unit + 2 * CellSizeEpsilon}

\* A stored key with the time step of Key and a cell size closer than
\* CellSizeEpsilon to Key's.
CachedWithin(cache, Key) ==
    \E k \in DOMAIN cache :
        k.TimeStep = Key.TimeStep /\ Abs(k.CellSize - Key.CellSize) < CellSizeEpsilon

MInit ==
    /\ mOwner = Idle
    /\ mDir \in ManagerDatasets
    /\ mDisk \in ManagerDisks
    /\ mCache = <<>>
    /\ mCreating = FALSE
    /\ mTask = NoTask
    /\ mQueries = <<>>
    /\ mLive = {}
    /\ mLast = NoCall
    /\ mOps = 0

\* LoadHashTables on the owner thread.  A call that goes on to build stays
\* inside the builder until MLoadFinish; every other call returns at once.
MLoadHashTables ==
    /\ mOwner.pc = "idle"
    /\ mOps < MaxOps
    /\ \E StartTimeStep \in 0..1, EndTimeStep \in 0..1, bAutoCreate \in BOOLEAN :
          LET CellSize == Unit
              firstId == FreeId(mLive, EndTimeStep - StartTimeStep + 1)
              missing == \E t \in StartTimeStep..EndTimeStep :
                            ~FileAt(mDisk, GetOutputFilename(CellSize, t)).exists
          IN /\ firstId + (EndTimeStep - StartTimeStep) <= MaxObjects
             /\ IF missing /\ bAutoCreate /\ mDir.exists
                THEN /\ mOwner' = [pc |-> "building", CellSize |-> CellSize,
                                   StartTimeStep |-> StartTimeStep,
                                   EndTimeStep |-> EndTimeStep]
                     /\ UNCHANGED <<mDisk, mCache, mLive, mLast>>
                ELSE \E picks \in RangePicks(mCache, CellSize, StartTimeStep, EndTimeStep) :
                     \E r \in {LoadHashTables(mCache, mDisk, mDir, CellSize, StartTimeStep,
                                              EndTimeStep, bAutoCreate, picks, firstId)} :
                        /\ mCache' = r.cache
                        /\ mDisk' = r.disk
                        /\ mLive' = Alive(mLive, r.cache, mQueries)
                        /\ mLast' = [op |-> "LoadHashTables", missing |-> missing,
                                     bAutoCreate |-> bAutoCreate, tried |-> r.tried,
                                     ok |-> r.count > 0, count |-> r.count,
                                     unchanged |-> r.cache = mCache,
                                     CellSize |-> CellSize,
                                     StartTimeStep |-> StartTimeStep,
                                     EndTimeStep |-> EndTimeStep, built |-> FALSE]
                        /\ mOwner' = mOwner
    /\ mOps' = mOps + 1
    /\ UNCHANGED <<mDir, mCreating, mTask, mQueries, tvars, bvars, qvars, avars, xvars>>

\* The builder of the call returns: the rest of TryCreateHashTables and of
\* LoadHashTables.
MLoadFinish ==
    /\ mOwner.pc = "building"
    /\ \E picks \in RangePicks(mCache, mOwner.CellSize, mOwner.StartTimeStep,
                               mOwner.EndTimeStep) :
       \E r \in {LoadAfterCreate(mCache,
                                 TryCreateHashTables(mDir, mDisk, mOwner.CellSize),
                                 mOwner.CellSize, mOwner.StartTimeStep, mOwner.EndTimeStep,
                                 picks,
                                 FreeId(mLive, mOwner.EndTimeStep - mOwner.StartTimeStep + 1))} :
          /\ mCache' = r.cache
          /\ mDisk' = r.disk
          /\ mLive' = Alive(mLive, r.cache, mQueries)
          /\ mLast' = [op |-> "LoadHashTables", missing |-> TRUE, bAutoCreate |-> TRUE,
                       tried |-> r.tried, ok |-> r.count > 0, count |-> r.count,
                       unchanged |-> r.cache = mCache,
                       CellSize |-> mOwner.CellSize,
                       StartTimeStep |-> mOwner.StartTimeStep,
                       EndTimeStep |-> mOwner.EndTimeStep, built |-> r.built]
    /\ mOwner' = Idle
    /\ UNCHANGED <<mDir, mCreating, mTask, mQueries, mOps, tvars, bvars, qvars, avars, xvars>>

\* LoadHashTable with a file path of the caller's choice.
MLoadHashTable ==
    /\ mOwner.pc = "idle"
    /\ mOps < MaxOps
    /\ FreeId(mLive, 1) <= MaxObjects
    /\ \E FileTimeStep \in 0..1, CellSize \in ManagerCellSizes \ {Unit}, TimeStep \in 0..1 :
       \E pick \in Lookups(mCache, HashTableKey(CellSize, TimeStep)) :
       \E r \in {LoadHashTable(mCache, mDisk, GetOutputFilename(Unit, FileTimeStep),
                               CellSize, TimeStep, pick, FreeId(mLive, 1))} :
          /\ mCache' = r.cache
          /\ mLive' = Alive(mLive, r.cache, mQueries)
          /\ mLast' = [op |-> "LoadHashTable", missing |-> FALSE, bAutoCreate |-> FALSE,
                       tried |-> FALSE, ok |-> r.ok, count |-> IF r.ok THEN 1 ELSE 0,
                       unchanged |-> r.cache = mCache,
                       Key |-> HashTableKey(CellSize, TimeStep),
                       cached |-> CachedWithin(mCache, HashTableKey(CellSize, TimeStep)),
                       read |-> pick = NoKey]
    /\ mOps' = mOps + 1
    /\ UNCHANGED <<mOwner, mDir, mDisk, mCreating, mTask, mQueries,
                   tvars, bvars, qvars, avars, xvars>>

MUnloadHashTables ==
    /\ mOwner.pc = "idle"
    /\ mOps < MaxOps
    /\ \E CellSize \in {Unit, Unit + 2 * CellSizeEpsilon} :
          /\ mCache' = UnloadHashTables(mCache, CellSize)
          /\ mLive' = Alive(mLive, UnloadHashTables(mCache, CellSize), mQueries)
          /\ mLast' = [op |-> "UnloadHashTables", CellSize |-> CellSize,
                       removed |-> Cardinality(DOMAIN mCache)
                                     - Cardinality(DOMAIN UnloadHashTables(mCache, CellSize))]
    /\ mOps' = mOps + 1
    /\ UNCHANGED <<mOwner, mDir, mDisk, mCreating, mTask, mQueries,
                   tvars, bvars, qvars, avars, xvars>>

MUnloadAllHashTables ==
    /\ mOwner.pc = "idle"
    /\ mOps < MaxOps
    /\ mCache' = UnloadAllHashTables(mCache)
    /\ mLive' = Alive(mLive, UnloadAllHashTables(mCache), mQueries)
    /\ mOps' = mOps + 1
    /\ UNCHANGED <<mOwner, mDir, mDisk, mCreating, mTask, mQueries, mLast,
                   tvars, bvars, qvars, avars, xvars>>

MCreateHashTablesAsync ==
    /\ mOwner.pc = "idle"
    /\ mOps < MaxOps
    /\ \E r \in {CreateHashTablesAsync(mCreating, mTask, Unit, 0, 1)} :
          /\ mCreating' = r.creating
          /\ mTask' = r.task
    /\ mOps' = mOps + 1
    /\ UNCHANGED <<mOwner, mDir, mDisk, mCache, mQueries, mLive, mLast,
                   tvars, bvars, qvars, avars, xvars>>

\* The background task that ends without a word when the directory is
\* missing.
MTaskStart_SilentOnMissing ==
    /\ mTask.pc = "queued"
    /\ mTask' = IF mDir.exists THEN [mTask EXCEPT !.pc = "building"] ELSE NoTask
    /\ UNCHANGED <<mOwner, mDir, mDisk, mCache, mCreating, mQueries, mLive, mLast, mOps,
                   tvars, bvars, qvars, avars, xvars>>

\* The background task starts on a worker thread: the directory check.
MTaskStart ==
    /\ mTask.pc = "queued"
    /\ mTask' = [mTask EXCEPT !.pc = IF mDir.exists THEN "building" ELSE "dirMissing"]
    /\ UNCHANGED <<mOwner, mDir, mDisk, mCache, mCreating, mQueries, mLive, mLast, mOps,
                   tvars, bvars, qvars, avars, xvars>>

\* The build of the background task returns and the task posts its
\* completion to the owner thread.
MTaskFinish ==
    /\ mTask.pc = "building"
    /\ \E r \in {BuildTask(mCache, mDir, mDisk, mTask.CellSize, mTask.StartTimeStep,
                           mTask.EndTimeStep)} :
          /\ mDisk' = r.disk
          /\ mCache' = r.cache
          /\ mLive' = Alive(mLive, r.cache, mQueries)
          /\ mTask' = [mTask EXCEPT !.pc = "done", !.bSuccess = r.bSuccess]
    /\ UNCHANGED <<mOwner, mDir, mCreating, mQueries, mLast, mOps,
                   tvars, bvars, qvars, avars, xvars>>

\* The completion posted to the owner thread: the load of the new tables
\* after a successful build, and the flag cleared.
MTaskComplete ==
    /\ mOwner.pc = "idle"
    /\ mTask.pc \in {"done", "dirMissing"}
    /\ IF mTask.pc = "done" /\ mTask.bSuccess
       THEN \E picks \in RangePicks(mCache, mTask.CellSize, mTask.StartTimeStep,
                                    mTask.EndTimeStep) :
            \E r \in {LoadHashTables(mCache, mDisk, mDir, mTask.CellSize,
                                     mTask.StartTimeStep, mTask.EndTimeStep, FALSE, picks,
                                     FreeId(mLive, mTask.EndTimeStep - mTask.StartTimeStep + 1))} :
               /\ mCache' = r.cache
               /\ mLive' = Alive(mLive, r.cache, mQueries)
               /\ mLast' = [op |-> "LoadHashTables",
                            missing |-> ~CheckHashTablesExist(mDisk, mTask.CellSize,
                                            mTask.StartTimeStep, mTask.EndTimeStep),
                            bAutoCreate |-> FALSE, tried |-> r.tried,
                            ok |-> r.count > 0, count |-> r.count,
                            unchanged |-> r.cache = mCache,
                            CellSize |-> mTask.CellSize,
                            StartTimeStep |-> mTask.StartTimeStep,
                            EndTimeStep |-> mTask.EndTimeStep, built |-> FALSE]
       ELSE UNCHANGED <<mCache, mLive, mLast>>
    /\ mCreating' = FALSE
    /\ mTask' = NoTask
    /\ UNCHANGED <<mOwner, mDir, mDisk, mQueries, mOps, tvars, bvars, qvars, avars, xvars>>

\* IsHashTableLoaded on the owner thread, and the table lookup of a query
\* for the same key: both end where Contains(Key) ends.
MIsHashTableLoaded ==
    /\ mOwner.pc = "idle"
    /\ mOps < MaxOps
    /\ \E CellSize \in ManagerCellSizes, TimeStep \in 0..1 :
       \E pick \in Lookups(mCache, HashTableKey(CellSize, TimeStep)) :
          mLast' = [op |-> "IsHashTableLoaded",
                    Key |-> HashTableKey(CellSize, TimeStep),
                    cached |-> CachedWithin(mCache, HashTableKey(CellSize, TimeStep)),
                    ok |-> IsHashTableLoaded(mCache, CellSize, TimeStep, pick),
                    found |-> GetHashTable(mCache, CellSize, TimeStep, pick) # NullPtr]
    /\ mOps' = mOps + 1
    /\ UNCHANGED <<mOwner, mDir, mDisk, mCache, mCreating, mTask, mQueries, mLive,
                   tvars, bvars, qvars, avars, xvars>>

\* A query starts: it takes the pointer GetHashTable returns and keeps it
\* while its body runs.
MQueryBegin ==
    /\ Len(mQueries) < MaxQueries
    /\ \E CellSize \in ManagerCellSizes, TimeStep \in 0..1 :
       \E pick \in Lookups(mCache, HashTableKey(CellSize, TimeStep)) :
          /\ pick # NoKey
          /\ mQueries' = Append(mQueries, GetHashTable(mCache, CellSize, TimeStep, pick))
          /\ mLive' = Alive(mLive, mCache,
                            Append(mQueries, GetHashTable(mCache, CellSize, TimeStep, pick)))
    /\ UNCHANGED <<mOwner, mDir, mDisk, mCache, mCreating, mTask, mLast, mOps,
                   tvars, bvars, qvars, avars, xvars>>

\* The body of a query ends and its pointer goes out of scope.
MQueryEnd ==
    /\ \E i \in 1..Len(mQueries) :
          /\ mQueries' = SubSeq(mQueries, 1, i - 1) \o SubSeq(mQueries, i + 1, Len(mQueries))
          /\ mLive' = Alive(mLive, mCache,
                            SubSeq(mQueries, 1, i - 1) \o SubSeq(mQueries, i + 1, Len(mQueries)))
    /\ UNCHANGED <<mOwner, mDir, mDisk, mCache, mCreating, mTask, mLast, mOps,
                   tvars, bvars, qvars, avars, xvars>>

MNext ==
    \/ MLoadHashTables
    \/ MLoadFinish
    \/ MLoadHashTable
    \/ MUnloadHashTables
    \/ MUnloadAllHashTables
    \/ MIsHashTableLoaded
    \/ MCreateHashTablesAsync
    \/ MTaskStart
    \/ MTaskFinish
    \/ MTaskComplete
    \/ MQueryBegin
    \/ MQueryEnd

InitManager == MInit /\ TOff /\ BOff /\ QOff /\ AOff /\ XOff

SpecManager == InitManager /\ [][MNext]_vars

\* C5: for one manager, no two dataset builds run at the same time: while
\* the build of the background task is in flight the owner thread is not
\* inside the builder, and the other way round.
C5_OneBuildAtATime == ~(mOwner.pc = "building" /\ mTask.pc = "building")

\* C7: the cache of loaded tables is modified on the owner thread only: no
\* step of the background build task and no step of a query body adds,
\* removes or replaces a cache entry.
C7_CacheOwnerOnly ==
    [][(MTaskStart \/ MTaskFinish \/ MQueryBegin \/ MQueryEnd) => mCache' = mCache]_vars

\* The background build has written the files and the cache is still empty.
C7_Witness ==
    /\ mTask.pc = "done"
    /\ mTask.bSuccess
    /\ FileAt(mDisk, GetOutputFilename(Unit, 0)).exists
    /\ mCache = <<>>

C10_HeaderMatchesKeyStrictly ==
    /\ \A k \in DOMAIN mCache :
          /\ mCache[k].table.Header.TimeStep = k.TimeStep
          /\ Abs(mCache[k].table.Header.CellSize - k.CellSize) < CellSizeEpsilon
    /\ (mLast.op = "LoadHashTable" /\ ~mLast.ok) => mLast.unchanged

\* C10: every cached table has the time step of its key and a cell size
\* that differs from the key's by at most 0.001, and a load that fails
\* leaves the cache as it was.
C10_HeaderMatchesKey ==
    /\ \A k \in DOMAIN mCache :
          /\ mCache[k].table.Header.TimeStep = k.TimeStep
          /\ Abs(mCache[k].table.Header.CellSize - k.CellSize) <= CellSizeEpsilon
    /\ (mLast.op = "LoadHashTable" /\ ~mLast.ok) => mLast.unchanged

\* A table cached under a key whose cell size is 0.001 away from the
\* header's, after a load that was refused left the cache as it was.
C10_Witness ==
    /\ \E k \in DOMAIN mCache :
          Abs(mCache[k].table.Header.CellSize - k.CellSize) = CellSizeEpsilon
    /\ mLast.op = "LoadHashTable"
    /\ ~mLast.ok
    /\ mLast.unchanged

\* C11: once a table is cached under (c, t), IsHashTableLoaded(c', t) and
\* the table lookup of a query succeed for every c' closer than 0.001 to c,
\* and the cache never holds two entries whose keys are that close at one
\* time step.
C11_LookupHonoursTolerance ==
    /\ (mLast.op = "IsHashTableLoaded" /\ mLast.cached) => (mLast.ok /\ mLast.found)
    /\ \A k1 \in DOMAIN mCache : \A k2 \in DOMAIN mCache :
          (k1.TimeStep = k2.TimeStep /\ Abs(k1.CellSize - k2.CellSize) < CellSizeEpsilon)
              => k1 = k2

\* C12: LoadHashTable for a key that is already cached does not read the
\* file and leaves the cache, the table objects included, as it was.
C12_NoReloadOfCachedKey ==
    (mLast.op = "LoadHashTable" /\ mLast.cached) => (~mLast.read /\ mLast.unchanged)

\* C13: UnloadHashTables(c) removes exactly the entries whose key cell size
\* is within 0.001 of c and leaves every other entry with its table object;
\* UnloadAllHashTables leaves the cache empty.
C13_UnloadExact ==
    [][/\ MUnloadHashTables =>
            /\ DOMAIN mCache' = {k \in DOMAIN mCache :
                                    Abs(k.CellSize - mLast'.CellSize) > CellSizeEpsilon}
            /\ \A k \in DOMAIN mCache' : mCache'[k] = mCache[k]
       /\ MUnloadAllHashTables => mCache' = <<>>]_vars

\* UnloadHashTables(1.002) has removed the table cached under 1.001 and left
\* the table cached under 1.0.
C13_Witness ==
    /\ mLast.op = "UnloadHashTables"
    /\ mLast.CellSize = Unit + 2 * CellSizeEpsilon
    /\ mLast.removed > 0
    /\ \E k \in DOMAIN mCache : k.CellSize = Unit

\* --------------------------------------------- async query tasks (SpecAsync)
\* A task is [pc, kind, SpatialHashManager, alive, broadcasts,
\* bReadyToDestroy, target, results]: SpatialHashManager tells whether a
\* manager was supplied, alive whether the task object still exists,
\* broadcasts counts the OnComplete broadcasts, target records at delivery
\* whether the task still existed, results what was delivered.
TaskKinds == {"Radius", "DualRadius", "TimeRange", "Trajectory"}

NoAsyncTask ==
    [pc |-> "none", kind |-> "Radius", SpatialHashManager |-> FALSE, alive |-> FALSE,
     broadcasts |-> 0, bReadyToDestroy |-> FALSE, target |-> "none", results |-> "none"]

\* The factory functions QueryRadiusAsync, QueryDualRadiusAsync, ...
QueryAsync(kind, Manager) ==
    [NoAsyncTask EXCEPT !.pc = "created", !.kind = kind,
                        !.SpatialHashManager = Manager, !.alive = TRUE]

\* Activate that returns without a broadcast when no manager was supplied.
Activate_SilentWithoutManager(Task) ==
    IF ~Task.SpatialHashManager
    THEN [Task EXCEPT !.bReadyToDestroy = TRUE, !.pc = "completed", !.target = "alive"]
    ELSE [Task EXCEPT !.pc = "active"]

\* Activate: without a manager an empty result is broadcast at once; with
\* one the query is handed to the manager together with the completion
\* delegate.
Activate(Task) ==
    IF ~Task.SpatialHashManager
    THEN [Task EXCEPT !.broadcasts = @ + 1, !.bReadyToDestroy = TRUE,
                      !.pc = "completed", !.target = "alive", !.results = "empty"]
    ELSE [Task EXCEPT !.pc = "active"]

\* The completion delegate: it broadcasts when the weak pointer to the task
\* is still valid and does nothing otherwise.
OnQueryComplete(Task, Results) ==
    IF Task.alive
    THEN [Task EXCEPT !.broadcasts = @ + 1, !.bReadyToDestroy = TRUE,
                      !.pc = "completed", !.target = "alive", !.results = Results]
    ELSE [Task EXCEPT !.pc = "completed", !.target = "destroyed"]

AInit ==
    /\ aTasks = [i \in 1..MaxTasks |-> NoAsyncTask]
    /\ aPending = {}

ACreate ==
    /\ \E i \in 1..MaxTasks, kind \in TaskKinds, Manager \in BOOLEAN :
          /\ aTasks[i].pc = "none"
          /\ aTasks' = [aTasks EXCEPT ![i] = QueryAsync(kind, Manager)]
    /\ UNCHANGED <<aPending, tvars, bvars, qvars, mvars, xvars>>

AActivate ==
    /\ \E i \in 1..MaxTasks :
          /\ aTasks[i].pc = "created"
          /\ aTasks[i].alive
          /\ aTasks' = [aTasks EXCEPT ![i] = Activate(aTasks[i])]
          /\ aPending' = IF aTasks[i].SpatialHashManager THEN aPending \cup {i}
                         ELSE aPending
    /\ UNCHANGED <<tvars, bvars, qvars, mvars, xvars>>

\* The manager finishes the query and invokes the delegate it was given,
\* once, with the results, empty or not.
ADeliver ==
    /\ \E i \in aPending, Results \in {"empty", "some"} :
          /\ aTasks' = [aTasks EXCEPT ![i] = OnQueryComplete(aTasks[i], Results)]
          /\ aPending' = aPending \ {i}
    /\ UNCHANGED <<tvars, bvars, qvars, mvars, xvars>>

\* The task object is destroyed (its game instance goes away, or it was
\* ready to be destroyed and has been collected).
ADestroy ==
    /\ \E i \in 1..MaxTasks :
          /\ aTasks[i].alive
          /\ aTasks' = [aTasks EXCEPT ![i].alive = FALSE]
    /\ UNCHANGED <<aPending, tvars, bvars, qvars, mvars, xvars>>

ANext == ACreate \/ AActivate \/ ADeliver \/ ADestroy

InitAsync == AInit /\ TOff /\ BOff /\ QOff /\ MOff /\ XOff

SpecAsync == InitAsync /\ [][ANext]_vars

\* C6: the completion callback of an async query is invoked exactly once when
\* its target exists at delivery, an empty result and a missing manager
\* included, and never when the target was destroyed before; until the
\* delivery the callback is neither invoked nor lost.
C6_CallbackExactlyOnce ==
    \A i \in 1..MaxTasks :
        /\ aTasks[i].broadcasts <= 1
        /\ aTasks[i].pc = "active" <=> i \in aPending
        /\ aTasks[i].pc \in {"none", "created", "active"} => aTasks[i].broadcasts = 0
        /\ (aTasks[i].pc = "completed" /\ aTasks[i].target = "alive")
              => aTasks[i].broadcasts = 1
        /\ (aTasks[i].pc = "completed" /\ aTasks[i].target = "destroyed")
              => aTasks[i].broadcasts = 0

\* One task without a manager has broadcast its empty result once; the other
\* was destroyed while its query was running and its callback was dropped.
C6_Witness ==
    \E i, j \in 1..MaxTasks :
        /\ aTasks[i].pc = "completed"
        /\ ~aTasks[i].SpatialHashManager
        /\ aTasks[i].broadcasts = 1
        /\ aTasks[i].results = "empty"
        /\ aTasks[j].pc = "completed"
        /\ aTasks[j].target = "destroyed"
        /\ aTasks[j].broadcasts = 0

\* ------------------------------------------ manager: the other query modes
\* In these modes the field Distance of a sample holds the squared distance;
\* a radius test "Distance <= Radius" of the code is the test below.
NoDistance == Int32Max      \* FLT_MAX: beyond every distance

WithinDistance(DistanceSquared, Radius) ==
    Radius >= 0 /\ DistanceSquared # NoDistance /\ DistanceSquared <= Radius * Radius

\* The candidate ids of the tables of the time steps ts0..ts1 around one
\* point, a time step without a loaded table being skipped.
\* tables[t]: the table GetHashTable returns for time step t.
RECURSIVE RangeCandidates(_, _, _, _, _, _)
RangeCandidates(tables, disk, QueryPosition, Radius, TimeStep, EndTimeStep) ==
    IF TimeStep > EndTimeStep THEN <<>>
    ELSE (IF tables[TimeStep] = NoTable THEN <<>>
          ELSE QueryTrajectoryIdsInRadius(tables[TimeStep], QueryPosition, Radius, disk))
         \o RangeCandidates(tables, disk, QueryPosition, Radius, TimeStep + 1, EndTimeStep)

\* FilterByDualRadius: [inner, outerOnly].
FilterByDualRadius(QueryPosition, InnerRadius, OuterRadius, TrajectoryData) ==
    LET D(x) == DistSquared(QueryPosition, x.Position)
        Inner(x) == D(x) <= InnerRadius * InnerRadius
        Outer(x) == ~Inner(x) /\ D(x) <= OuterRadius * OuterRadius
        Measured(sel) == [i \in 1..Len(sel) |-> [sel[i] EXCEPT !.Distance = D(sel[i])]]
        inner == [k \in 1..Len(TrajectoryData) |->
                     [TrajectoryId |-> TrajectoryData[k].TrajectoryId,
                      SamplePoints |-> Measured(SelectSeq(TrajectoryData[k].SamplePoints, Inner))]]
        outer == [k \in 1..Len(TrajectoryData) |->
                     [TrajectoryId |-> TrajectoryData[k].TrajectoryId,
                      SamplePoints |-> Measured(SelectSeq(TrajectoryData[k].SamplePoints, Outer))]]
        NonEmpty(x) == x.SamplePoints # <<>>
    IN [inner |-> SelectSeq(inner, NonEmpty), outerOnly |-> SelectSeq(outer, NonEmpty)]

\* Dual-radius query.  t: the table GetHashTable returned.
QueryDualRadiusWithDistanceCheck(t, disk, dir, QueryPosition, InnerRadius, OuterRadius, TimeStep, okq) ==
    LET none == [inner |-> <<>>, outerOnly |-> <<>>]
        Filter(d) == IF ~d.ok THEN none
                     ELSE FilterByDualRadius(QueryPosition, InnerRadius, OuterRadius, d.data)
        Fetch(ids) == IF ids = <<>> THEN none
                      ELSE Filter(LoadTrajectorySamplesForIds(dir, ids, TimeStep, TimeStep, okq))
    IN IF InnerRadius > OuterRadius THEN none
       ELSE IF t = NoTable THEN none
       ELSE Fetch(QueryTrajectoryIdsInRadius(t, QueryPosition, OuterRadius, disk))

\* Mode B with the samples fetched over one more time step than asked for.
QueryRadiusOverTimeRange_WiderFetch(tables, disk, dir, QueryPosition, Radius, StartTimeStep, EndTimeStep, okq) ==
    LET Filter(d) == IF ~d.ok THEN <<>> ELSE FilterByDistance(QueryPosition, Radius, d.data)
        Fetch(ids) == IF ids = <<>> THEN <<>>
                      ELSE Filter(LoadTrajectorySamplesForIds(dir, ids, StartTimeStep,
                                                              EndTimeStep + 1, okq))
    IN IF StartTimeStep > EndTimeStep THEN <<>>
       ELSE Fetch(DistinctInOrder(RangeCandidates(tables, disk, QueryPosition, Radius,
                                                  StartTimeStep, EndTimeStep)))

\* Mode B.
QueryRadiusOverTimeRange(tables, disk, dir, QueryPosition, Radius, StartTimeStep, EndTimeStep, okq) ==
    LET Filter(d) == IF ~d.ok THEN <<>> ELSE FilterByDistance(QueryPosition, Radius, d.data)
        Fetch(ids) == IF ids = <<>> THEN <<>>
                      ELSE Filter(LoadTrajectorySamplesForIds(dir, ids, StartTimeStep,
                                                              EndTimeStep, okq))
    IN IF StartTimeStep > EndTimeStep THEN <<>>
       ELSE Fetch(DistinctInOrder(RangeCandidates(tables, disk, QueryPosition, Radius,
                                                  StartTimeStep, EndTimeStep)))

\* ExtendTrajectorySamples.  The first pair of WithinRadiusRanges starts at
\* the first sample within the radius, the last pair ends at the last one.
ExtendTrajectorySamples(TrajectoryData, Radius) ==
    LET Within(sp) == {i \in 1..Len(sp) : WithinDistance(sp[i].Distance, Radius)}
        FirstEntryIndex(sp) == CHOOSE i \in Within(sp) : \A j \in Within(sp) : i <= j
        LastExitIndex(sp) == CHOOSE i \in Within(sp) : \A j \in Within(sp) : i >= j
        Extended(x) == [TrajectoryId |-> x.TrajectoryId,
                        SamplePoints |-> SubSeq(x.SamplePoints,
                                                FirstEntryIndex(x.SamplePoints),
                                                LastExitIndex(x.SamplePoints))]
        Entered(x) == Within(x.SamplePoints) # {}
        sel == SelectSeq(TrajectoryData, Entered)
    IN [k \in 1..Len(sel) |-> Extended(sel[k])]

\* The candidates of Mode C: around every sample of the query trajectory, in
\* the table of the sample's time step, the query trajectory left out.
RECURSIVE TrajectoryCandidates(_, _, _, _, _)
TrajectoryCandidates(tables, disk, QuerySamples, QueryTrajectoryId, Radius) ==
    IF QuerySamples = <<>> THEN <<>>
    ELSE LET QuerySample == Head(QuerySamples)
             Other(id) == id # QueryTrajectoryId
         IN (IF tables[QuerySample.TimeStep] = NoTable THEN <<>>
             ELSE SelectSeq(QueryTrajectoryIdsInRadius(tables[QuerySample.TimeStep],
                                                       QuerySample.Position, Radius, disk),
                            Other))
            \o TrajectoryCandidates(tables, disk, Tail(QuerySamples), QueryTrajectoryId, Radius)

\* Sample.Distance of Mode C: the least distance to a query sample of the
\* same time step, FLT_MAX without one.
MinDistance(Sample, QuerySamples) ==
    LET ds == {DistSquared(QuerySamples[i].Position, Sample.Position) :
                  i \in {j \in 1..Len(QuerySamples) : QuerySamples[j].TimeStep = Sample.TimeStep}}
    IN IF ds = {} THEN NoDistance ELSE CHOOSE m \in ds : \A x \in ds : m <= x

\* Mode C.
QueryTrajectoryRadiusOverTimeRange(tables, disk, dir, QueryTrajectoryId, Radius, StartTimeStep, EndTimeStep, okq) ==
    LET Measure(QuerySamples, data) ==
            [k \in 1..Len(data) |->
                [TrajectoryId |-> data[k].TrajectoryId,
                 SamplePoints |-> [i \in 1..Len(data[k].SamplePoints) |->
                     [data[k].SamplePoints[i] EXCEPT
                         !.Distance = MinDistance(data[k].SamplePoints[i], QuerySamples)]]]]
        Extend(QuerySamples, d) ==
            IF ~d.ok THEN <<>>
            ELSE ExtendTrajectorySamples(Measure(QuerySamples, d.data), Radius)
        Fetch(QuerySamples, ids) ==
            IF ids = <<>> THEN <<>>
            ELSE Extend(QuerySamples,
                        LoadTrajectorySamplesForIds(dir, ids, StartTimeStep, EndTimeStep, okq))
        Around(QuerySamples) ==
            IF QuerySamples = <<>> THEN <<>>
            ELSE Fetch(QuerySamples,
                       DistinctInOrder(TrajectoryCandidates(tables, disk, QuerySamples,
                                                            QueryTrajectoryId, Radius)))
        Query(qd) == IF ~qd.ok THEN <<>> ELSE Around(qd.data[1].SamplePoints)
    IN IF StartTimeStep > EndTimeStep THEN <<>>
       ELSE Query(LoadTrajectorySamplesForIds(dir, <<QueryTrajectoryId>>, StartTimeStep,
                                              EndTimeStep, okq))

\* --------------------------------------- the other query modes (SpecModes)
\* The run uses the variables of the query run: qCache holds the loaded
\* tables, qQuery the call made and qResult its output.
Near == <<Unit, 0, 0>>
Far == <<2 * Unit, 0, 0>>

\* The shard names "shard-0.bin", "shard-2.bin" and "shard-8.bin",
\* "shard-10.bin": [first, second] in time order.
ModeShardNames == {[first |-> <<0>>, second |-> <<2>>], [first |-> <<8>>, second |-> <<1, 0>>]}

\* Two shards of two time steps each.  Trajectory 1 rests at the origin and
\* may miss its third sample; trajectory 2 is near, far or missing at each
\* of the first three time steps and far at the fourth.
ModeDatasets ==
    {[exists |-> TRUE,
      shards |-> [n \in {names.first, names.second} |->
          IF n = names.first
          THEN [IntervalSize |-> 2,
                Entries |-> <<Entry(1, <<<<0, 0, 0>>, <<0, 0, 0>>>>), Entry(2, <<b1, b2>>)>>]
          ELSE [IntervalSize |-> 2,
                Entries |-> <<Entry(1, <<a3, <<0, 0, 0>>>>), Entry(2, <<b3, Far>>)>>]]] :
        names \in ModeShardNames, a3 \in {<<0, 0, 0>>, NaN},
        b1 \in {Near, Far, NaN}, b2 \in {Near, Far, NaN}, b3 \in {Near, Far, NaN}}

\* The first time step of a dataset, and the outcome of its shard reads.
FirstTimeStep(dir) == CHOOSE t \in {Atoi(n) : n \in DOMAIN dir.shards} :
                          \A n \in DOMAIN dir.shards : t <= Atoi(n)
ModeReads == <<TRUE, TRUE>>

ModeRadii == {Unit \div 2, Unit}
ModeRanges(dir) ==
    {<<FirstTimeStep(dir) + a, FirstTimeStep(dir) + b>> :
        <<a, b>> \in {<<0, 0>>, <<2, 2>>, <<1, 0>>, <<0, 3>>, <<1, 2>>}}

\* tables[t]: the table GetHashTable returns for time step t.
TablesOf(cache, CellSize, picks) ==
    [t \in DOMAIN picks |-> GetHashTable(cache, CellSize, t, picks[t]).table]

RInit ==
    /\ qpc = "init"
    /\ qDir \in ModeDatasets
    /\ qCellSize = Unit
    /\ qDisk = NoFiles
    /\ qCache = <<>>
    /\ qQuery = NoQuery
    /\ qResult = <<>>

\* LoadHashTables(dataset, cellSize, first, last, autoCreate = true) on a
\* fresh manager, for all four time steps or for the first two.
RLoad ==
    /\ qpc = "init"
    /\ \E last \in {FirstTimeStep(qDir) + 1, FirstTimeStep(qDir) + 3} :
       \E picks \in RangePicks(qCache, qCellSize, FirstTimeStep(qDir), last) :
       \E r \in {LoadHashTables(qCache, qDisk, qDir, qCellSize, FirstTimeStep(qDir), last,
                                TRUE, picks, 1)} :
          /\ qCache' = r.cache
          /\ qDisk' = r.disk
    /\ qpc' = "loaded"
    /\ UNCHANGED <<qDir, qCellSize, qQuery, qResult, tvars, bvars, mvars, avars, xvars>>

RQueryDual ==
    /\ qpc = "loaded"
    /\ \E ri \in ModeRadii \cup {-Unit}, ro \in ModeRadii,
          ts \in FirstTimeStep(qDir)..(FirstTimeStep(qDir) + 3) :
       \E pick \in Lookups(qCache, HashTableKey(qCellSize, ts)) :
          /\ qQuery' = [mode |-> "dual", q |-> <<0, 0, 0>>, ri |-> ri, ro |-> ro, ts |-> ts,
                        pick |-> pick]
          /\ qResult' = QueryDualRadiusWithDistanceCheck(
                            GetHashTable(qCache, qCellSize, ts, pick).table,
                            qDisk, qDir, <<0, 0, 0>>, ri, ro, ts, ModeReads)
    /\ qpc' = "done"
    /\ UNCHANGED <<qDir, qCellSize, qDisk, qCache, tvars, bvars, mvars, avars, xvars>>

RQueryRange ==
    /\ qpc = "loaded"
    /\ \E r \in ModeRadii, range \in ModeRanges(qDir) :
       \E picks \in RangePicks(qCache, qCellSize, range[1], range[2]) :
          /\ qQuery' = [mode |-> "range", q |-> <<0, 0, 0>>, r |-> r,
                        ts0 |-> range[1], ts1 |-> range[2], picks |-> picks]
          /\ qResult' = QueryRadiusOverTimeRange(
                            TablesOf(qCache, qCellSize, picks), qDisk, qDir, <<0, 0, 0>>, r,
                            range[1], range[2], ModeReads)
    /\ qpc' = "done"
    /\ UNCHANGED <<qDir, qCellSize, qDisk, qCache, tvars, bvars, mvars, avars, xvars>>

RQueryTrajectory ==
    /\ qpc = "loaded"
    /\ \E r \in ModeRadii, range \in ModeRanges(qDir) :
       \E picks \in RangePicks(qCache, qCellSize, range[1], range[2]) :
          /\ qQuery' = [mode |-> "trajectory", id |-> 1, r |-> r,
                        ts0 |-> range[1], ts1 |-> range[2], picks |-> picks]
          /\ qResult' = QueryTrajectoryRadiusOverTimeRange(
                            TablesOf(qCache, qCellSize, picks), qDisk, qDir, 1, r,
                            range[1], range[2], ModeReads)
    /\ qpc' = "done"
    /\ UNCHANGED <<qDir, qCellSize, qDisk, qCache, tvars, bvars, mvars, avars, xvars>>

RNext == RLoad \/ RQueryDual \/ RQueryRange \/ RQueryTrajectory

InitModes == RInit /\ TOff /\ BOff /\ MOff /\ AOff /\ XOff

SpecModes == InitModes /\ [][RNext]_vars

\* The position of trajectory id at time step t in the dataset, NaN without
\* a sample.
PositionAt(dir, id, t) ==
    LET hits == {dir.shards[ne[1]].Entries[ne[2]].Positions[t - Atoi(ne[1]) + 1] :
                    ne \in {x \in (DOMAIN dir.shards) \X (1..2) :
                        /\ x[2] <= Len(dir.shards[x[1]].Entries)
                        /\ dir.shards[x[1]].Entries[x[2]].TrajectoryId = id
                        /\ t - Atoi(x[1]) \in 0..(dir.shards[x[1]].IntervalSize - 1)}}
    IN IF hits = {} THEN NaN ELSE CHOOSE p \in hits : TRUE

\* The time steps of [ts0, ts1] at which trajectory id has a sample, and
\* those at which it is within r of the sample of trajectory id0.
SampledAt(dir, id, ts0, ts1) == {t \in ts0..ts1 : IsValidPos(PositionAt(dir, id, t))}
InRangeAt(dir, id0, id, r, ts0, ts1) ==
    {t \in SampledAt(dir, id, ts0, ts1) \cap SampledAt(dir, id0, ts0, ts1) :
        WithinDistance(DistSquared(PositionAt(dir, id0, t), PositionAt(dir, id, t)), r)}

TimeSteps(SamplePoints) == {SamplePoints[i].TimeStep : i \in 1..Len(SamplePoints)}

\* C14: in the moving-trajectory query every returned trajectory is another
\* trajectory with a sample within r of the query trajectory, and its sample
\* list holds exactly its samples of the time steps from the first to the
\* last in-range time step, those farther than r included.
C14_EntryToExit ==
    (qpc = "done" /\ qQuery.mode = "trajectory") =>
        \A k \in 1..Len(qResult) :
            LET id == qResult[k].TrajectoryId
                sp == qResult[k].SamplePoints
                In == InRangeAt(qDir, qQuery.id, id, qQuery.r, qQuery.ts0, qQuery.ts1)
            IN /\ id # qQuery.id
               /\ In # {}
               /\ TimeSteps(sp) =
                    {t \in SampledAt(qDir, id, qQuery.ts0, qQuery.ts1) :
                        (\E a \in In : a <= t) /\ (\E b \in In : t <= b)}
               /\ Len(sp) = Cardinality(TimeSteps(sp))
               /\ \A i \in 1..Len(sp) : sp[i].Position = PositionAt(qDir, id, sp[i].TimeStep)

\* C15: in the time-range query and in the moving-trajectory query the
\* samples of every returned trajectory are in ascending time step order.
C15_SamplesInTimeOrder ==
    (qpc = "done" /\ qQuery.mode \in {"range", "trajectory"}) =>
        \A k \in 1..Len(qResult) :
            \A i \in 2..Len(qResult[k].SamplePoints) :
                qResult[k].SamplePoints[i - 1].TimeStep <= qResult[k].SamplePoints[i].TimeStep

\* C16: in a dual-radius query with rInner <= rOuter no sample of a
\* trajectory is in both the inner and the outer-only result, and every
\* sample of either is a sample of that trajectory in the result of the
\* single-radius query with radius rOuter at the same point and time step.
C16_DualWithinSingle ==
    (qpc = "done" /\ qQuery.mode = "dual" /\ qQuery.ri <= qQuery.ro) =>
        LET Holds(single) ==
                /\ \A i \in 1..Len(qResult.inner) : \A o \in 1..Len(qResult.outerOnly) :
                      qResult.inner[i].TrajectoryId = qResult.outerOnly[o].TrajectoryId
                          => Range(qResult.inner[i].SamplePoints)
                                 \cap Range(qResult.outerOnly[o].SamplePoints) = {}
                /\ \A part \in {qResult.inner, qResult.outerOnly} :
                   \A i \in 1..Len(part) :
                   \E s \in 1..Len(single) :
                      /\ single[s].TrajectoryId = part[i].TrajectoryId
                      /\ Range(part[i].SamplePoints) \subseteq Range(single[s].SamplePoints)
        IN Holds(QueryRadiusWithDistanceCheck(
                     GetHashTable(qCache, qCellSize, qQuery.ts, qQuery.pick).table,
                     qDisk, qDir, qQuery.q, qQuery.ro, qQuery.ts, ModeReads))

\* C17: a time-range query with ts0 = ts1 returns what the single-timestep
\* query returns for the same dataset, point, radius, cell size and time
\* step, whether the table of the time step is loaded or not.
C17_RangeCollapses ==
    (qpc = "done" /\ qQuery.mode = "range" /\ qQuery.ts0 = qQuery.ts1) =>
        qResult = QueryRadiusWithDistanceCheck(
                      TablesOf(qCache, qCellSize, qQuery.picks)[qQuery.ts0],
                      qDisk, qDir, qQuery.q, qQuery.r, qQuery.ts0, ModeReads)

\* A time-range query over one time step that found trajectory 1 and
\* trajectory 2, trajectory 2 being within the radius at the next time step
\* as well.
C17_Witness ==
    /\ qpc = "done"
    /\ qQuery.mode = "range"
    /\ qQuery.ts0 = qQuery.ts1
    /\ Len(qResult) = 2
    /\ PositionAt(qDir, 2, qQuery.ts0 + 1) = Near
    /\ qQuery.r = Unit

\* ------------------------------------------------ table queries (SpecTable)
\* The point lies outside the bounding box of the header.
OutsideBBox(WorldPos, Header) ==
    \E a \in 1..3 : WorldPos[a] < Header.BBoxMin[a] \/ WorldPos[a] > Header.BBoxMax[a]

\* The trajectory ids of the samples whose cell has the key Key, in sample
\* order.
IdsOfCell(Samples, Config, Key) ==
    LET Here(x) == CellKey(x.Position, Config.BBoxMin, Config.CellSize) = Key
        sel == SelectSeq(Samples, Here)
    IN [i \in 1..Len(sel) |-> sel[i].TrajectoryId]

\* The keys looked up: every key a sample of the model can have, and more.
TableKeys == 0..(SplitBy3(MaxCoord + 1) + 2)

\* C18: QueryAtPosition at a point outside the bounding box of the table,
\* points with negative cell coordinates included, returns no ids.
C18_OutsideIsEmpty ==
    (tQuery.made /\ OutsideBBox(tQuery.WorldPos, tTable.Header)) =>
        /\ tQuery.resident.ids = <<>>
        /\ tQuery.onDemand.ids = <<>>

\* C19: on a table with strictly ascending keys FindEntry(k) is the index of
\* the entry with key k, and -1 when there is none; QueryAtPosition(p)
\* returns the ids of the entry of the key of p, and nothing without one.
C19_FindEntryExact ==
    /\ tpc # "init" =>
          \A k \in TableKeys :
              LET hits == {i \in 1..Len(tTable.Entries) : tTable.Entries[i].ZOrderKey = k}
              IN IF hits = {} THEN FindEntry(tTable, k) = -1
                 ELSE FindEntry(tTable, k) + 1 \in hits
    /\ tQuery.made =>
          LET ids == IdsOfCell(tSamples, tConfig, tQuery.Key)
          IN /\ tQuery.EntryIndex >= 0 <=> ids # <<>>
             /\ tQuery.resident = [ok |-> ids # <<>>, ids |-> ids]
             /\ tQuery.onDemand = [ok |-> ids # <<>>, ids |-> ids]

\* A query has found the third of three entries.
C19_Witness ==
    /\ tQuery.made
    /\ Len(tTable.Entries) = 3
    /\ tQuery.EntryIndex = 2
    /\ Len(tQuery.resident.ids) = 1

\* C20: for every entry of a saved table GetTrajectoryIdsForCell returns the
\* same ids from the table in memory and from the loaded table, which reads
\* TrajectoryCount words at byte 64 + 16 * NumEntries + 4 * StartIndex of
\* the file.
C20_ResidentEqualsOnDemand ==
    tpc \in {"loaded", "queried"} =>
        \A i \in 1..Len(tTable.Entries) :
            LET e == tTable.Entries[i]
                r == GetTrajectoryIdsForCell(tTable, i - 1, TableDisk)
            IN /\ r.ok
               /\ GetTrajectoryIdsForCell(tLoaded, i - 1, TableDisk) = r
               /\ r.ids = ReadWords(tFile, 64 + 16 * Len(tTable.Entries) + 4 * e.StartIndex,
                                    4 * e.TrajectoryCount)

\* A loaded table with the ids resident nowhere, whose second entry holds
\* two ids behind those of the first.
C20_Witness ==
    /\ tpc = "loaded"
    /\ tLoaded.TrajectoryIds = <<>>
    /\ Len(tLoaded.Entries) = 2
    /\ tLoaded.Entries[2].StartIndex = 1
    /\ tLoaded.Entries[2].TrajectoryCount = 2

ReadInPass1(dir, Starts) == {n \in DOMAIN dir.shards : Atoi(n) \in Range(Starts)}

\* C25: when some but not all shards fail to load in PASS 1 and nothing else
\* fails, the build completes, and every valid sample of every shard that
\* was read is in the table of the shard's start time step plus its local
\* index.
C25_PartialPass1Indexed ==
    (/\ bpc \in {"done", "failed", "crashed"}
     /\ bFaults = 1
     /\ Len(bStarts) \in 1..(Len(bFiles) - 1)) =>
        /\ bpc = "done"
        /\ \A n \in ReadInPass1(bDir, bStarts) :
           \A e \in 1..Len(bDir.shards[n].Entries) :
           \A i \in 1..bDir.shards[n].IntervalSize :
              IsValidPos(bDir.shards[n].Entries[e].Positions[i]) =>
                  bDir.shards[n].Entries[e].TrajectoryId \in
                      Range(FileIds(FileAt(bDisk, GetOutputFilename(bCellSize, Atoi(n) + i - 1))))

\* ------------------------------------------- key calculation (SpecEncode)
\* A 64-bit word is the set of the positions of its 1 bits, bit 0 the least
\* significant.
BitsOf(n) == {i \in 0..30 : (n \div (2 ^ i)) % 2 = 1}

\* The word written as 16 hexadecimal digits, most significant first.
HexBits(h) == {b \in 0..63 : (h[16 - (b \div 4)] \div (2 ^ (b % 4))) % 2 = 1}

\* x << k on uint64: the bits shifted past bit 63 are lost.
ShiftLeft(w, k) == {b + k : b \in w} \cap (0..63)

\* The five steps x = (x | x << shift) & mask of SplitBy3, with the masks
\* 0x1f00000000ffff, 0x1f0000ff0000ff, 0x100f00f00f00f00f,
\* 0x10c30c30c30c30c3 and 0x1249249249249249.
SpreadSteps ==
    <<[shift |-> 32, mask |-> HexBits(<<0, 0, 1, 15, 0, 0, 0, 0, 0, 0, 0, 0, 15, 15, 15, 15>>)],
      [shift |-> 16, mask |-> HexBits(<<0, 0, 1, 15, 0, 0, 0, 0, 15, 15, 0, 0, 0, 0, 15, 15>>)],
      [shift |-> 8, mask |-> HexBits(<<1, 0, 0, 15, 0, 0, 15, 0, 0, 15, 0, 0, 15, 0, 0, 15>>)],
      [shift |-> 4, mask |-> HexBits(<<1, 0, 12, 3, 0, 12, 3, 0, 12, 3, 0, 12, 3, 0, 12, 3>>)],
      [shift |-> 2, mask |-> HexBits(<<1, 2, 4, 9, 2, 4, 9, 2, 4, 9, 2, 4, 9, 2, 4, 9>>)]>>

\* The word x after the steps from step i on.
RECURSIVE Spread(_, _)
Spread(x, i) ==
    IF i > Len(SpreadSteps) THEN x
    ELSE Spread((x \cup ShiftLeft(x, SpreadSteps[i].shift)) \cap SpreadSteps[i].mask, i + 1)

\* SplitBy3 with the value limited to 20 bits.
SplitBy3Bits_TwentyBits(Value) == Spread(BitsOf(Value) \cap BitsOf(CoordMax21 \div 2), 1)

\* SplitBy3 on the 64-bit word: the value masked with 0x1fffff, then the
\* five steps.
SplitBy3Bits(Value) == Spread(BitsOf(Value) \cap BitsOf(CoordMax21), 1)

\* CalculateZOrderKey on the 64-bit word.
CalculateZOrderKeyBits(CellX, CellY, CellZ) ==
    LET X == Clamp(CellX, 0, CoordMax21)
        Y == Clamp(CellY, 0, CoordMax21)
        Z == Clamp(CellZ, 0, CoordMax21)
    IN SplitBy3Bits(X) \cup ShiftLeft(SplitBy3Bits(Y), 1) \cup ShiftLeft(SplitBy3Bits(Z), 2)

\* The coordinates tried: below, at and above the range, and every single
\* bit of the 21.
EncodeCoords == {-1, 0, 1, 2, 3, CoordMax21, CoordMax21 + 1} \cup {2 ^ i : i \in 2..20}

\* The cells tried: at most one coordinate outside 0, 1, 3 and 2^21 - 1.
EncodeCells ==
    LET few == {0, 1, 3, CoordMax21}
    IN {c \in EncodeCoords \X EncodeCoords \X EncodeCoords :
           Cardinality({a \in 1..3 : c[a] \notin few}) <= 1}

\* The cells a key is compared with: a cube at the origin and the cells of
\* one high bit.
EncodeProbes ==
    {c \in EncodeCells : \A a \in 1..3 : c[a] \in {0, 1, 2, 3, 2 ^ 20, CoordMax21}}

ProbeKeys == [d \in EncodeProbes |-> CalculateZOrderKeyBits(d[1], d[2], d[3])]

EInit ==
    /\ epc = "in"
    /\ eCell \in EncodeCells
    /\ eKey = {}

ECalculate ==
    /\ epc = "in"
    /\ eKey' = CalculateZOrderKeyBits(eCell[1], eCell[2], eCell[3])
    /\ epc' = "out"
    /\ UNCHANGED <<eCell, tvars, bvars, qvars, mvars, avars, gvars, wvars, nvars>>

ENext == ECalculate

InitEncode == EInit /\ TOff /\ BOff /\ QOff /\ MOff /\ AOff /\ GOff /\ WOff /\ NOff

SpecEncode == InitEncode /\ [][ENext]_vars

\* The number a word of the bits 0..5 stands for.
KeyValue(w) == CHOOSE n \in 0..63 : BitsOf(n) = w

\* C22: the key has bit i of the clamped cx, cy, cz at the bits 3i, 3i + 1,
\* 3i + 2 and no other bit, bit 63 among them; no other in-range cell has
\* the same key; the keys of (0,0,0), (1,0,0), (0,1,0), (0,0,1), (1,1,1),
\* (2,0,0), (3,3,3) are 0, 1, 2, 4, 7, 8, 63; and where the key fits the
\* integers of the table model it is CalculateZOrderKey.
C22_EncodeBits ==
    epc = "out" =>
        LET c == [a \in 1..3 |-> Clamp(eCell[a], 0, CoordMax21)]
            InRange(d) == \A a \in 1..3 : d[a] \in 0..CoordMax21
        IN /\ \A i \in 0..20 : \A a \in 1..3 : (3 * i + a - 1 \in eKey) <=> (i \in BitsOf(c[a]))
           /\ eKey \subseteq 0..62
           /\ InRange(eCell) =>
                 \A d \in EncodeProbes : (InRange(d) /\ ProbeKeys[d] = eKey) => d = eCell
           /\ eCell = <<0, 0, 0>> => eKey = {}
           /\ eCell = <<1, 0, 0>> => KeyValue(eKey) = 1
           /\ eCell = <<0, 1, 0>> => KeyValue(eKey) = 2
           /\ eCell = <<0, 0, 1>> => KeyValue(eKey) = 4
           /\ eCell = <<1, 1, 1>> => KeyValue(eKey) = 7
           /\ eCell = <<2, 0, 0>> => KeyValue(eKey) = 8
           /\ eCell = <<3, 3, 3>> => KeyValue(eKey) = 63
           /\ (\A a \in 1..3 : c[a] <= 3) =>
                 BitsOf(CalculateZOrderKey(eCell[1], eCell[2], eCell[3])) = eKey

\* A z coordinate above the range has been clamped and its top bit is bit 62
\* of the key.
C22_Witness ==
    /\ epc = "out"
    /\ eCell = <<1, 0, CoordMax21 + 1>>
    /\ 62 \in eKey
    /\ 0 \in eKey

\* --------------------------------------------- SpatialHashGrid (SpecGrid)
NearestMaxRadius == 10      \* the largest cube Nearest searches, in cells

\* A shard file that cannot be opened.
NoShard == [opens |-> FALSE, points |-> <<>>]

\* GetCell: floor(x * inv_cell_size_) per axis.
GetCell(p, cell_size) == <<p[1] \div cell_size, p[2] \div cell_size, p[3] \div cell_size>>

\* LoadShard for the shards from shard i on: [ok, points]; the first shard
\* that does not open ends the loading with the points read so far.
RECURSIVE LoadShards(_, _, _)
LoadShards(shards, i, points) ==
    IF i > Len(shards) THEN [ok |-> TRUE, points |-> points]
    ELSE IF ~shards[i].opens THEN [ok |-> FALSE, points |-> points]
    ELSE LoadShards(shards, i + 1, points \o shards[i].points)

\* grid_ after grid_[GetCell(pt)].push_back(i) for every point in order.
GridOf(points, cell_size) ==
    [c \in {GetCell(points[i], cell_size) : i \in 1..Len(points)} |->
        LET Here(i) == GetCell(points[i], cell_size) = c
        IN SelectSeq([i \in 1..Len(points) |-> i], Here)]

\* SpatialHashGridImpl::BuildFromShards: [ok, points, grid].
BuildFromShards(cell_size, shards) ==
    LET Built(l) ==
            [ok |-> l.ok, points |-> l.points,
             grid |-> IF l.ok THEN GridOf(l.points, cell_size) ELSE <<>>]
    IN Built(LoadShards(shards, 1, <<>>))

\* The indices of the points within the radius in the cells lo..hi, in loop
\* order.
RECURSIVE GridCellsPoints(_, _, _, _, _, _, _)
GridCellsPoints(points, grid, cells, lo, hi, q, radius_sq) ==
    IF lo > hi THEN <<>>
    ELSE IF lo = hi
    THEN IF cells[lo] \notin DOMAIN grid THEN <<>>
         ELSE LET Inside(idx) == DistSquared(points[idx], q) <= radius_sq
              IN SelectSeq(grid[cells[lo]], Inside)
    ELSE LET mid == (lo + hi) \div 2
         IN GridCellsPoints(points, grid, cells, lo, mid, q, radius_sq)
            \o GridCellsPoints(points, grid, cells, mid + 1, hi, q, radius_sq)

\* SpatialHashGridImpl::RadiusQuery: [ok, count, points, null], the points as
\* indices into points_, null: out_result.points is nullptr.
RadiusQuery(cell_size, points, grid, q, radius) ==
    LET cell_radius == CeilDiv(radius, cell_size)
        cells == CellsAround(GetCell(q, cell_size), cell_radius)
        Result(r) == [ok |-> TRUE, count |-> Len(r), points |-> r, null |-> r = <<>>]
    IN Result(GridCellsPoints(points, grid, cells, 1, Len(cells), q, radius * radius))

\* The indices of the points in the cells on the surface of the cube of the
\* given radius around the centre cell.
ShellPoints(points, cell_size, center, radius) ==
    {i \in 1..Len(points) :
        LET c == GetCell(points[i], cell_size)
        IN /\ \A a \in 1..3 : Abs(c[a] - center[a]) <= radius
           /\ \E a \in 1..3 : Abs(c[a] - center[a]) = radius}

\* The place of point i in the loops over dx, dy, dz and the indices of a
\* cell.
LoopRank(points, cell_size, center, radius, i) ==
    LET c == GetCell(points[i], cell_size)
        n == 2 * radius + 1
    IN (((c[1] - center[1] + radius) * n + (c[2] - center[2] + radius)) * n
            + (c[3] - center[3] + radius)) * (Len(points) + 1) + i

\* Nearest from the cube of the given radius on: [found, out], out the index
\* of out_point in points_ (0: out_point is not written).
RECURSIVE NearestFrom(_, _, _, _, _)
NearestFrom(cell_size, points, center, q, radius) ==
    IF radius > NearestMaxRadius THEN [found |-> FALSE, out |-> 0]
    ELSE LET shell == ShellPoints(points, cell_size, center, radius)
             Before(i, j) ==
                 \/ DistSquared(points[i], q) < DistSquared(points[j], q)
                 \/ /\ DistSquared(points[i], q) = DistSquared(points[j], q)
                    /\ LoopRank(points, cell_size, center, radius, i)
                           < LoopRank(points, cell_size, center, radius, j)
         IN IF shell = {} THEN NearestFrom(cell_size, points, center, q, radius + 1)
            ELSE [found |-> TRUE,
                  out |-> CHOOSE i \in shell : \A j \in shell \ {i} : Before(i, j)]

\* SpatialHashGridImpl::Nearest.  The points of grid_ are those of points_
\* after a build that succeeded and none after one that failed.
Nearest(cell_size, points, grid, q) ==
    IF points = <<>> THEN [found |-> FALSE, out |-> 0]
    ELSE IF grid = <<>> THEN [found |-> FALSE, out |-> 0]
    ELSE NearestFrom(cell_size, points, GetCell(q, cell_size), q, 0)

GridCellSizes == {1, 4}
GridCoords == {<<0, 0, 0>>, <<3, 0, 0>>, <<4, 0, 0>>, <<0, 4, 0>>}
GridShards == {NoShard} \cup {[opens |-> TRUE, points |-> ps] : ps \in SeqsUpTo(GridCoords, 1)}
GridShardLists == SeqsUpTo(GridShards, 3) \ {<<>>}
GridQueryPoints == {<<0, 0, 0>>, <<3, 0, 0>>, <<11, 0, 0>>, <<2, 2, 0>>}
GridRadii == {-1, 0, 1, 3}

GInit ==
    /\ gpc = "new"
    /\ gCellSize \in GridCellSizes
    /\ gPoints = <<>>
    /\ gGrid = <<>>
    /\ gQuery = [op |-> "none"]

GBuildFromShards ==
    /\ gpc \in {"new", "built", "failed"}
    /\ gQuery.op = "none"
    /\ \E shards \in GridShardLists :
       \E r \in {BuildFromShards(gCellSize, shards)} :
          /\ gPoints' = r.points
          /\ gGrid' = r.grid
          /\ gpc' = IF r.ok THEN "built" ELSE "failed"
    /\ UNCHANGED <<gCellSize, gQuery, tvars, bvars, qvars, mvars, avars, evars, wvars, nvars>>

GRadiusQuery ==
    /\ gpc \in {"new", "built", "failed"}
    /\ \E q \in GridQueryPoints, radius \in GridRadii :
          gQuery' = [op |-> "RadiusQuery", q |-> q, radius |-> radius,
                     result |-> RadiusQuery(gCellSize, gPoints, gGrid, q, radius)]
    /\ UNCHANGED <<gpc, gCellSize, gPoints, gGrid, tvars, bvars, qvars, mvars, avars, evars, wvars, nvars>>

GNearest ==
    /\ gpc \in {"new", "built", "failed"}
    /\ \E q \in GridQueryPoints :
          gQuery' = [op |-> "Nearest", q |-> q,
                     result |-> Nearest(gCellSize, gPoints, gGrid, q)]
    /\ UNCHANGED <<gpc, gCellSize, gPoints, gGrid, tvars, bvars, qvars, mvars, avars, evars, wvars, nvars>>

GNext == GBuildFromShards \/ GRadiusQuery \/ GNearest

InitGrid == GInit /\ TOff /\ BOff /\ QOff /\ MOff /\ AOff /\ EOff /\ WOff /\ NOff

SpecGrid == InitGrid /\ [][GNext]_vars

\* C23: on a grid that is empty or was built, RadiusQuery succeeds and
\* returns exactly the points of the grid within the radius of the query
\* point, each once; on the empty grid the count is 0 and the array null.
C23_RadiusQueryExact ==
    (gQuery.op = "RadiusQuery" /\ gpc \in {"new", "built"}) =>
        LET r == gQuery.result
            inside == {i \in 1..Len(gPoints) :
                          /\ gQuery.radius >= 0
                          /\ DistSquared(gPoints[i], gQuery.q) <= gQuery.radius * gQuery.radius}
        IN /\ r.ok
           /\ Range(r.points) = inside
           /\ r.count = Cardinality(inside)
           /\ Len(r.points) = r.count
           /\ r.null <=> r.count = 0
           /\ gpc = "new" => (r.count = 0 /\ r.null)

\* C24: on a grid holding at least one point Nearest returns true and a
\* point at the least distance from the query point among all points of the
\* grid; on an empty grid it returns false.
C24_NearestIsNearest ==
    (gQuery.op = "Nearest" /\ gpc \in {"new", "built"}) =>
        LET r == gQuery.result
        IN IF gPoints = <<>> THEN ~r.found
           ELSE /\ r.found
                /\ r.out \in 1..Len(gPoints)
                /\ \A j \in 1..Len(gPoints) :
                      DistSquared(gPoints[r.out], gQuery.q) <= DistSquared(gPoints[j], gQuery.q)

\* ------------------------------- parallel sample extraction (SpecExtract)
MaxLoadFaults == 1      \* most failing shard loads of the build of a batch

\* The multiset of the elements of a sequence.
BagOfSeq(s) == [x \in Range(s) |-> Cardinality({i \in DOMAIN s : s[i] = x})]

\* The valid samples worker BatchIdx (1-based here) walks through, in its
\* loop order, under the start time step the code reads for it.
WorkerSamples(batch, BatchIdx) ==
    ShardSamples(batch.BatchShardData[BatchIdx].Entries, batch.starts[BatchIdx])

\* The valid samples of the loaded shards of the batch, under the start time
\* step of each shard's file name.
RECURSIVE NamedSamples(_, _)
NamedSamples(batch, BatchIdx) ==
    IF BatchIdx > Len(batch.BatchShardData) THEN <<>>
    ELSE ShardSamples(batch.BatchShardData[BatchIdx].Entries,
                      ParseTimestepFromFilename(batch.names[BatchIdx]))
         \o NamedSamples(batch, BatchIdx + 1)

\* The samples of all workers, worker after worker: the sequential order.
RECURSIVE SequentialSamples(_, _)
SequentialSamples(batch, BatchIdx) ==
    IF BatchIdx > Len(batch.BatchShardData) THEN <<>>
    ELSE WorkerSamples(batch, BatchIdx) \o SequentialSamples(batch, BatchIdx + 1)

ExtractDatasets ==
    {dir \in BuildDatasets : dir.exists /\ Cardinality(DOMAIN dir.shards) \in 1..BatchSize}

NoBatch ==
    [BatchShardData |-> <<>>, names |-> <<>>, starts |-> <<>>, BatchMinTimeStep |-> 0,
     Config |-> [CellSize |-> Unit, BBoxMin |-> <<0, 0, 0>>, BBoxMax |-> <<0, 0, 0>>]]

WInit ==
    /\ wpc = "idle"
    /\ \E dir \in ExtractDatasets : wShards = [NoBatch EXCEPT !.BatchShardData = <<dir>>]
    /\ wNext = <<>>
    /\ wBuckets = <<>>
    /\ wTables = <<>>

\* PASS 1 and the loading of the first batch of PASS 2, up to the ParallelFor
\* of the extraction.
WLoadBatch ==
    /\ wpc = "idle"
    /\ \E dir \in {wShards.BatchShardData[1]} :
       \E g \in {GetShardFiles(dir)} :
       \E ok1 \in Outcomes(Len(g.files), MaxLoadFaults) :
       \E ok2 \in Outcomes(Len(g.files), MaxLoadFaults - Failures(ok1)) :
       \E p \in {Pass1(dir, g.files, ok1, Unit)} :
       \E garbage \in IF Len(p.ShardStartTimeSteps) < Len(g.files) THEN 0..2 ELSE {0} :
       \E checked \in IF Len(p.ShardStartTimeSteps) < Len(g.files) THEN BOOLEAN ELSE {TRUE} :
       \E b \in {LoadBatchFrom(dir, g.files, p.ShardStartTimeSteps, 0,
                               Min2(BatchSize, Len(g.files)), ok2, garbage,
                               [BatchShardData |-> <<>>, BatchMinTimeStep |-> Int32Max,
                                BatchMaxTimeStep |-> -Int32Max - 1, outOfRange |-> FALSE])} :
          LET Loaded(name) == \E i \in 1..Len(g.files) : g.files[i] = name /\ ok2[i]
              n == Len(b.BatchShardData)
          IN IF ~p.ok \/ (b.outOfRange /\ checked) \/ n = 0
             THEN /\ wpc' = (IF ~p.ok THEN "failed"
                             ELSE IF b.outOfRange /\ checked THEN "crashed" ELSE "skipped")
                  /\ UNCHANGED <<wShards, wNext, wBuckets>>
             ELSE /\ wpc' = "extract"
                  /\ wShards' =
                        [BatchShardData |-> b.BatchShardData,
                         names |-> SelectSeq(g.files, Loaded),
                         starts |-> [i \in 1..n |->
                                        StartAt(p.ShardStartTimeSteps, i - 1, garbage)],
                         BatchMinTimeStep |-> b.BatchMinTimeStep,
                         Config |-> [CellSize |-> Unit, BBoxMin |-> p.BBoxMin,
                                     BBoxMax |-> p.BBoxMax]]
                  /\ wNext' = [i \in 1..n |-> 0]
                  /\ wBuckets' = [k \in 1..(b.BatchMaxTimeStep - b.BatchMinTimeStep + 1) |-> <<>>]
    /\ UNCHANGED <<wTables, tvars, bvars, qvars, mvars, avars, evars, gvars, nvars>>

\* One iteration of the inner loop of a worker of the ParallelFor: the next
\* valid sample of its shard, added to its bucket under SamplesMutex when
\* ArrayIndex is in range.
WAppend ==
    /\ wpc = "extract"
    /\ \E BatchIdx \in 1..Len(wNext) :
       \E samples \in {WorkerSamples(wShards, BatchIdx)} :
          /\ wNext[BatchIdx] < Len(samples)
          /\ LET s == samples[wNext[BatchIdx] + 1]
                 ArrayIndex == s.g - wShards.BatchMinTimeStep
             IN wBuckets' =
                   IF ArrayIndex >= 0 /\ ArrayIndex < Len(wBuckets)
                   THEN [wBuckets EXCEPT ![ArrayIndex + 1] =
                            Append(@, [TrajectoryId |-> s.TrajectoryId,
                                       Position |-> s.Position])]
                   ELSE wBuckets
          /\ wNext' = [wNext EXCEPT ![BatchIdx] = @ + 1]
    /\ UNCHANGED <<wpc, wShards, wTables, tvars, bvars, qvars, mvars, avars, evars, gvars, nvars>>

\* The ParallelFor has returned: the table of every time step of the batch
\* is built from its bucket.
WBuild ==
    /\ wpc = "extract"
    /\ \A BatchIdx \in 1..Len(wNext) :
          wNext[BatchIdx] = Len(WorkerSamples(wShards, BatchIdx))
    /\ wTables' = [k \in 1..Len(wBuckets) |->
                      BuildHashTableForTimeStep(wShards.BatchMinTimeStep + k - 1,
                                                wBuckets[k], wShards.Config)]
    /\ wpc' = "built"
    /\ UNCHANGED <<wShards, wNext, wBuckets, tvars, bvars, qvars, mvars, avars, evars, gvars, nvars>>

WNext == WLoadBatch \/ WAppend \/ WBuild

InitExtract == WInit /\ TOff /\ BOff /\ QOff /\ MOff /\ AOff /\ EOff /\ GOff /\ NOff

SpecExtract == InitExtract /\ [][WNext]_vars

\* The ids of the cell of an entry of a table, as a multiset.
EntryIdBag(t, e) ==
    BagOfSeq(SubSeq(t.TrajectoryIds, e.StartIndex + 1, e.StartIndex + e.TrajectoryCount))

SameCells(t, u) ==
    /\ Len(t.Entries) = Len(u.Entries)
    /\ \A i \in 1..Len(t.Entries) :
          /\ t.Entries[i].ZOrderKey = u.Entries[i].ZOrderKey
          /\ t.Entries[i].TrajectoryCount = u.Entries[i].TrajectoryCount
          /\ EntryIdBag(t, t.Entries[i]) = EntryIdBag(u, u.Entries[i])

\* Whatever the interleaving of the workers, the tables have the keys, the
\* counts and the ids per cell of the tables built from the samples taken
\* worker after worker.
ExtractMatchesSequential ==
    wpc = "built" =>
        \A k \in 1..Len(wBuckets) :
            /\ BagOfSeq(wBuckets[k])
                   = BagOfSeq(Bucket(SequentialSamples(wShards, 1), wShards.BatchMinTimeStep, k - 1))
            /\ SameCells(wTables[k],
                         BuildHashTableForTimeStep(
                             wShards.BatchMinTimeStep + k - 1,
                             Bucket(SequentialSamples(wShards, 1), wShards.BatchMinTimeStep, k - 1),
                             wShards.Config))

\* C26: for every interleaving of the workers of a batch, each valid sample
\* of the shards of the batch is in the bucket of its global time step
\* exactly once, and the tables have the keys, counts and ids per cell of a
\* sequential build.
C26_ExtractExactlyOnce ==
    wpc = "built" =>
        /\ \A k \in 1..Len(wBuckets) :
              BagOfSeq(wBuckets[k])
                  = BagOfSeq(Bucket(NamedSamples(wShards, 1), wShards.BatchMinTimeStep, k - 1))
        /\ \A s \in Range(NamedSamples(wShards, 1)) :
              s.g - wShards.BatchMinTimeStep \in 0..(Len(wBuckets) - 1)
        /\ ExtractMatchesSequential

\* ------------------------------ completion of the background build (fair)
\* The datasets of the manager and a directory that holds no shard file, for
\* which the build fails.
ManagerLiveDatasets == ManagerDatasets \cup {[exists |-> TRUE, shards |-> <<>>]}

MInitLive ==
    /\ mOwner = Idle
    /\ mDir \in ManagerLiveDatasets
    /\ mDisk \in ManagerDisks
    /\ mCache = <<>>
    /\ mCreating = FALSE
    /\ mTask = NoTask
    /\ mQueries = <<>>
    /\ mLive = {}
    /\ mLast = NoCall
    /\ mOps = 0

InitManagerLive == MInitLive /\ TOff /\ BOff /\ QOff /\ AOff /\ XOff

\* The steps of MTaskFinish, MTaskComplete and MLoadFinish, told by what they
\* do to the control state; each is enabled exactly when its action is.
TaskBuildReturns ==
    /\ mTask.pc = "building"
    /\ \E bSuccess \in BOOLEAN : mTask' = [mTask EXCEPT !.pc = "done", !.bSuccess = bSuccess]

TaskCompletionRuns ==
    /\ mOwner.pc = "idle"
    /\ mTask.pc \in {"done", "dirMissing"}
    /\ mTask' = NoTask

OwnerBuildReturns ==
    /\ mOwner.pc = "building"
    /\ mOwner' = Idle

\* The task graph runs every task it was given, a build returns, and the
\* owner thread gets back to its task queue.
SpecManagerLive ==
    /\ InitManagerLive
    /\ [][MNext]_vars
    /\ WF_vars(MTaskStart)
    /\ WF_mTask(TaskBuildReturns)
    /\ WF_mTask(TaskCompletionRuns)
    /\ WF_mOwner(OwnerBuildReturns)

\* C27: every accepted CreateHashTablesAsync is followed by the clearing of
\* bIsCreatingHashTables, by the completion that runs on the owner thread,
\* whether the build succeeded, failed or found no directory; a call made
\* with the flag clear is accepted.
C27_FlagEventuallyCleared ==
    /\ mCreating ~> ~mCreating
    /\ [][/\ (mCreating /\ ~mCreating') =>
                (mOwner.pc = "idle" /\ mTask.pc \in {"done", "dirMissing"})
          /\ (~mCreating /\ mOps' = mOps + 1 /\ mTask' # mTask) =>
                (mCreating' /\ mTask'.pc = "queued")]_vars

\* A second call has been accepted after the first one built, loaded the
\* tables and cleared the flag.
C27_Witness ==
    /\ mCreating
    /\ mTask.pc = "queued"
    /\ mOps = 2
    /\ mLast.op = "LoadHashTables"
    /\ ~mLast.bAutoCreate
    /\ mLast.count > 0

\* The flag has been cleared after a build that failed.
C27_WitnessFailedBuild ==
    /\ ~mCreating
    /\ mTask = NoTask
    /\ mOps = 1
    /\ mDir.exists
    /\ DOMAIN mDir.shards = {}
    /\ mLast = NoCall
    /\ mOwner.pc = "idle"

\* ------------------------------------- query fan-out of the actor (SpecActor)
MaxFanOuts == 2     \* FireAsyncQueriesWithCallback calls made on the actor
MaxResults == 1     \* most results one per-position query returns

ActorPositions == {<<>>, <<<<0, 0, 0>>>>, <<<<0, 0, 0>>, <<Unit, 0, 0>>>>}

\* The Results array a per-position query delivers: n results, told apart by
\* the call and the position they answer.
QueryResults(call, pos, n) == [k \in 1..n |-> [call |-> call, pos |-> pos, k |-> k]]

\* The fan-in that runs the completion on every callback.
FanIn_EveryCallback(PendingCount) == [Remaining |-> PendingCount - 1, fire |-> TRUE]

\* PendingCount->Decrement() and the test of the remaining count.
FanIn(PendingCount) == [Remaining |-> PendingCount - 1, fire |-> PendingCount - 1 = 0]

NInit ==
    /\ nPositions \in ActorPositions
    /\ nCachedPoints = <<>>
    /\ nCachedResults = <<>>
    /\ nCalls = <<>>
    /\ nQueries = {}
    /\ nAlive = TRUE

\* FireAsyncQueriesWithCallback.  bInitialized: InitializeManager returns
\* true.  Of a call the model keeps the number of queries, PendingCount, how
\* often OnComplete and OnFailure ran, what each query delivered, the cached
\* results at the time OnComplete ran, and whether queries of an earlier call
\* were outstanding when it started (during) or a later call started before
\* it completed (disturbed).
NFire ==
    /\ nAlive
    /\ Len(nCalls) < MaxFanOuts
    /\ \E bInitialized \in BOOLEAN :
          IF ~bInitialized \/ nPositions = <<>>
          THEN /\ nCalls' = Append(nCalls,
                      [ok |-> FALSE, N |-> 0, PendingCount |-> 0, completed |-> 0,
                       failed |-> 1, delivered |-> <<>>, atComplete |-> <<>>,
                       during |-> FALSE, disturbed |-> FALSE])
               /\ UNCHANGED <<nCachedPoints, nCachedResults, nQueries>>
          ELSE LET NumQueries == Len(nPositions)
                   call == Len(nCalls) + 1
                   Outstanding(c) == \E q \in nQueries : q.call = c
               IN /\ nCachedPoints' = nPositions
                  /\ nCachedResults' = <<>>
                  /\ nCalls' = Append([c \in 1..Len(nCalls) |->
                                          [nCalls[c] EXCEPT !.disturbed = @ \/ Outstanding(c)]],
                         [ok |-> TRUE, N |-> NumQueries, PendingCount |-> NumQueries,
                          completed |-> 0, failed |-> 0,
                          delivered |-> [i \in 1..NumQueries |-> -1],
                          atComplete |-> <<>>,
                          during |-> nQueries # {}, disturbed |-> FALSE])
                  /\ nQueries' = nQueries \cup {[call |-> call, pos |-> i] : i \in 1..NumQueries}
    /\ UNCHANGED <<nPositions, nAlive, tvars, bvars, qvars, mvars, avars, evars, gvars, wvars>>

\* The manager delivers the callback of one outstanding query on the game
\* thread, with n results: the lambda given to QueryRadiusOverTimeRangeAsync.
NDeliver ==
    /\ \E q \in nQueries, n \in 0..MaxResults :
          /\ nQueries' = nQueries \ {q}
          /\ IF ~nAlive
             THEN UNCHANGED <<nCachedResults, nCalls>>
             ELSE \E f \in {FanIn(nCalls[q.call].PendingCount)} :
                  \E appended \in {nCachedResults \o QueryResults(q.call, q.pos, n)} :
                     /\ nCachedResults' = appended
                     /\ nCalls' = [nCalls EXCEPT ![q.call] =
                           [@ EXCEPT !.PendingCount = f.Remaining,
                                     !.delivered = [@ EXCEPT ![q.pos] = n],
                                     !.completed = IF f.fire THEN @ + 1 ELSE @,
                                     !.atComplete = IF f.fire THEN appended ELSE @]]
    /\ UNCHANGED <<nPositions, nCachedPoints, nAlive, tvars, bvars, qvars, mvars, avars, evars, gvars, wvars>>

\* The actor is destroyed; its weak pointers go stale.
NDestroy ==
    /\ nAlive
    /\ nAlive' = FALSE
    /\ UNCHANGED <<nPositions, nCachedPoints, nCachedResults, nCalls, nQueries, tvars, bvars, qvars, mvars, avars, evars, gvars, wvars>>

NNext == NFire \/ NDeliver \/ NDestroy

InitActor == NInit /\ TOff /\ BOff /\ QOff /\ MOff /\ AOff /\ EOff /\ GOff /\ WOff

SpecActor == InitActor /\ [][NNext]_vars

\* The manager delivers the callback of every query it was given.
SpecActorLive == InitActor /\ [][NNext]_vars /\ WF_vars(NDeliver)

\* The results the queries of a call delivered.
ResultsOfCall(c) ==
    {r \in [call : {c}, pos : 1..nCalls[c].N, k : 1..MaxResults] :
        r.k <= nCalls[c].delivered[r.pos]}

ExactlyResultsOf(list, c) ==
    /\ Range(list) = ResultsOfCall(c)
    /\ Len(list) = Cardinality(ResultsOfCall(c))

\* C28: the completion of a fan-out over N >= 1 positions, started by one
\* call with no other call in flight, runs exactly once: never twice, only
\* after all N callbacks were delivered and appended, with the cached list
\* holding the results of all N queries, and it does run unless the actor is
\* destroyed first.
C28_FanInOnce ==
    /\ [](\A c \in 1..Len(nCalls) :
            /\ nCalls[c].completed <= 1
            /\ nCalls[c].completed = 1 =>
                  /\ nCalls[c].PendingCount = 0
                  /\ \A i \in 1..nCalls[c].N : nCalls[c].delivered[i] >= 0
                  /\ \A q \in nQueries : q.call # c
                  /\ (~nCalls[c].during /\ ~nCalls[c].disturbed) =>
                        ExactlyResultsOf(nCalls[c].atComplete, c))
    /\ \A c \in 1..MaxFanOuts :
          (c <= Len(nCalls) /\ nCalls[c].ok)
              ~> (~nAlive \/ (c <= Len(nCalls) /\ nCalls[c].completed = 1))

\* The completion of a fan-out over two positions has run with the results
\* of both in the cached list.
C28_Witness ==
    /\ Len(nCalls) = 1
    /\ nCalls[1].N = 2
    /\ nCalls[1].completed = 1
    /\ Len(nCalls[1].atComplete) = 2
    /\ nCachedResults = nCalls[1].atComplete

\* C30: when a call is made while queries of an earlier call are outstanding,
\* the cached list at the time the completion of the later call runs holds
\* the results of the later call's queries only, each once.
C30_LaterCallOnly ==
    \A c \in 1..Len(nCalls) :
        (nCalls[c].during /\ nCalls[c].completed = 1) =>
            ExactlyResultsOf(nCalls[c].atComplete, c)

\* C29: after a LoadHashTables call with bAutoCreate that built the tables,
\* a call for the same cell size and range of time steps does not enter the
\* builder again.
C29_NoSecondBuild ==
    [][(/\ mLast.op = "LoadHashTables"
        /\ mLast.built
        /\ mOwner.pc = "idle"
        /\ mOwner'.pc = "building")
          => ~(/\ mOwner'.CellSize = mLast.CellSize
               /\ mOwner'.StartTimeStep = mLast.StartTimeStep
               /\ mOwner'.EndTimeStep = mLast.EndTimeStep)]_vars

====
